---- MODULE Spec2Model ----
(***************************************************************************)
(* GoPro media database (mdb*.db) decoder: GoproMDBParser of               *)
(* gopro_mdb_parser.py and MCOPageAnalyzer of mco_page_analyzer.py.        *)
(*                                                                         *)
(* A file is a length and its bytes.  Only the bytes that differ from zero *)
(* are stored (mem); every other byte below the length reads as zero.      *)
(* Unsigned 32-bit values are kept as two 16-bit halves (lo, hi) so that   *)
(* no value leaves the range of the checker's integers.                    *)
(***************************************************************************)
EXTENDS Integers, Sequences, FiniteSets, TLC

VARIABLES
    file,               \* the file on disk: [size, mem]
    pc,                 \* position of the running program
    calls,              \* number of parse() calls started on the parser object
    result,             \* return value of the last finished parse()/analyze()
    data,               \* GoproMDBParser.data
    file_size,          \* GoproMDBParser.file_size
    header_valid,       \* GoproMDBParser.header_valid
    schema_version,     \* GoproMDBParser.schema_version
    struct_sizes,       \* GoproMDBParser.struct_sizes
    db_version,         \* GoproMDBParser.db_version
    page_size,          \* GoproMDBParser.page_size
    dictionary_offset,  \* GoproMDBParser.dictionary_offset
    mco_version,        \* GoproMDBParser.mco_version
    raw_records,        \* GoproMDBParser.raw_records
    singles_ex,         \* GoproMDBParser.singles_ex
    grouped_ex,         \* GoproMDBParser.grouped_ex
    output,             \* the dictionary to_dict() returned last
    an_file_size,       \* MCOPageAnalyzer.file_size
    an_page_size,       \* MCOPageAnalyzer.page_size
    an_n_pages,         \* MCOPageAnalyzer.db_info.n_pages
    an_calls,           \* number of analyze() calls started on the analyzer object
    an_db_info,         \* MCOPageAnalyzer.db_info: versions and dictionary offset
    an_pages,           \* MCOPageAnalyzer.pages
    an_unknowns,        \* MCOPageAnalyzer.unknowns
    pa_page_size,       \* PageAnalyzer.page_size
    pa_pages,           \* PageAnalyzer.pages
    pa_calls,           \* number of analyze_all() calls made on the PageAnalyzer
    pa_info,            \* the last parse_string_ext_page call: page index and result
    cli,                \* the command line of main(): arguments and path
    exit_code           \* exit status of the command, once it has exited

vars == <<file, pc, calls, result, data, file_size, header_valid,
          schema_version, struct_sizes, db_version, page_size,
          dictionary_offset, mco_version, raw_records, singles_ex,
          grouped_ex, output, an_file_size, an_page_size, an_n_pages,
          an_calls, an_db_info, an_pages, an_unknowns, pa_page_size, pa_pages,
          pa_calls, pa_info, cli, exit_code>>

parserVars == <<data, file_size, header_valid, schema_version, struct_sizes,
                db_version, page_size, dictionary_offset, mco_version,
                raw_records, singles_ex, grouped_ex, calls>>

analyzerVars == <<an_file_size, an_page_size, an_n_pages, an_calls, an_db_info,
                  an_pages, an_unknowns>>

pageVars == <<pa_page_size, pa_pages, pa_calls, pa_info>>

cliVars == <<cli, exit_code>>

-----------------------------------------------------------------------------
(* Program constants *)

HEADER_SIZE == 1024

SLOT_SIZE == 128

\* 0x2C00, first slot of the data region
DATA_ORIGIN == 11264

\* 0x0C10, usual place of the engine version
VERSION_OFFSET == 3088

\* number of parse(), analyze() or analyze_all() calls made on one object
MaxParses == 2

-----------------------------------------------------------------------------
(* Bytes *)

Min(a, b) == IF a < b THEN a ELSE b

Max(a, b) == IF a > b THEN a ELSE b

Abs(a) == IF a < 0 THEN 0 - a ELSE a

\* stride-spaced offsets of range(lo, hi, stride)
Range(lo, hi, stride) ==
    IF hi <= lo THEN {}
    ELSE {lo + stride * i : i \in 0..((hi - lo - 1) \div stride)}

EmptyFile == [size |-> 0, mem |-> <<>>]

\* data[o] for an index o below the length
ByteAt(f, o) == IF o \in DOMAIN f.mem THEN f.mem[o] ELSE 0

\* data[a:b], offsets kept absolute: the slice is the window [lo, hi)
Slice(f, a, b) == [lo |-> Min(a, f.size), hi |-> Max(Min(a, f.size), Min(b, f.size))]

U32(lo, hi) == [lo |-> lo, hi |-> hi]

U32Zero == U32(0, 0)

read_u8(f, offset) == IF offset < f.size THEN ByteAt(f, offset) ELSE 0

read_u16(f, offset) ==
    IF offset + 2 <= f.size
    THEN ByteAt(f, offset) + 256 * ByteAt(f, offset + 1)
    ELSE 0

read_u32(f, offset) ==
    IF offset + 4 <= f.size
    THEN U32(ByteAt(f, offset) + 256 * ByteAt(f, offset + 1),
             ByteAt(f, offset + 2) + 256 * ByteAt(f, offset + 3))
    ELSE U32Zero

\* needle in data: some window of the buffer equals the needle
Contains(f, needle) ==
    \E o \in DOMAIN f.mem :
        /\ o + Len(needle) <= f.size
        /\ \A i \in 1..Len(needle) : ByteAt(f, o + i - 1) = needle[i]

-----------------------------------------------------------------------------
(* Building input files *)

LE16(v) == <<v % 256, v \div 256>>

\* the bytes of seq placed at offset off
Put(off, seq) == [o \in off..(off + Len(seq) - 1) |-> seq[o - off + 1]]

\* a file of the given size holding the nonzero bytes of m that fit
MkFile(size, m) ==
    [size |-> size,
     mem |-> [o \in {x \in DOMAIN m : x < size /\ m[x] # 0} |-> m[o]]]

EXPECTED_MAGIC == <<0, 255, 255, 255, 255, 255, 255, 255, 255, 255, 255, 7>>

NAME_camera_model == <<99, 97, 109, 101, 114, 97, 95, 109, 111, 100, 101, 108>>

NAME_vmoment == <<118, 109, 111, 109, 101, 110, 116>>

NAME_vtag == <<118, 116, 97, 103>>

-----------------------------------------------------------------------------
(* GoproMDBParser: header, schema, page size, engine version *)

RECORD_SIZES ==
    [hero5 |-> [mdb_single_ex |-> 78, mdb_grouped_ex |-> 57],
     hero11 |-> [mdb_single_ex |-> 134, mdb_grouped_ex |-> 73]]

\* a comparison that stops one byte early
parse_header_short(f) ==
    /\ f.size >= 12
    /\ \A i \in 1..11 : ByteAt(f, i - 1) = EXPECTED_MAGIC[i]

\* a length test that forgets the configuration block
TooSmallHeaderOnly(f) == f.size < HEADER_SIZE

\* parse(): file_size < HEADER_SIZE + 0x100
TooSmall(f) == f.size < HEADER_SIZE + 256

\* self.data[:12] == expected_magic
parse_header(f) ==
    /\ f.size >= 12
    /\ \A i \in 1..12 : ByteAt(f, i - 1) = EXPECTED_MAGIC[i]

\* a detection that looks for vtag first
detect_schema_vtag_first(f) ==
    IF Contains(f, NAME_vtag) THEN "hero5-8"
    ELSE IF Contains(f, NAME_camera_model)
         THEN IF Contains(f, NAME_vmoment) THEN "hero11+" ELSE "hero9-10"
         ELSE "legacy"

detect_schema(f) ==
    IF Contains(f, NAME_camera_model)
    THEN IF Contains(f, NAME_vmoment) THEN "hero11+" ELSE "hero9-10"
    ELSE IF Contains(f, NAME_vtag) THEN "hero5-8" ELSE "legacy"

detect_struct_sizes(schema) ==
    IF schema = "hero11+"
    THEN [mdb_single_ex |-> 134, mdb_grouped_ex |-> 73]
    ELSE [mdb_single_ex |-> 78, mdb_grouped_ex |-> 57]

DbVersion(f) ==
    [major |-> read_u16(f, HEADER_SIZE), minor |-> read_u16(f, HEADER_SIZE + 2)]

PARSER_PAGE_SIZES == <<512, 1024, 256, 2048>>

PARSER_KNOWN_KINDS == {0, 1, 2, 3, 4, 5, 6, 7, 8, 10, 11, 12, 15}

\* number of probes of page size ps that look like page headers
ParserValidCount(f, ps) ==
    Cardinality({offset \in Range(ps, Min(ps * 16, f.size), ps) :
        /\ (ByteAt(f, offset) % 16) \in PARSER_KNOWN_KINDS
        /\ \/ read_u16(f, offset + 2) < 256
           \/ read_u16(f, offset + 2) = 65535})

ParserPageSizeOk(f, ps) == f.size >= ps * 4 /\ ParserValidCount(f, ps) >= 3

\* a detection that forgets the default of 512
detect_page_size_no_default(f, prev) ==
    LET ok == {i \in 1..Len(PARSER_PAGE_SIZES) : ParserPageSizeOk(f, PARSER_PAGE_SIZES[i])}
        first == CHOOSE i \in ok : \A j \in ok : i <= j
    IN  IF ok # {} THEN PARSER_PAGE_SIZES[first] ELSE prev

\* GoproMDBParser._detect_page_size: first size of the list with three valid
\* probes; prev is self.page_size before the call
detect_page_size(f, prev) ==
    LET ok == {i \in 1..Len(PARSER_PAGE_SIZES) : ParserPageSizeOk(f, PARSER_PAGE_SIZES[i])}
        first == CHOOSE i \in ok : \A j \in ok : i <= j
    IN  IF ok # {} THEN PARSER_PAGE_SIZES[first]
        ELSE IF prev = 0 THEN 512 ELSE prev

\* self.data[offset] raises IndexError unless every offset is inside the file
Indexed(f, offsets) == \A o \in offsets : 0 <= o /\ o < f.size

\* offsets _detect_page_size indexes: the probes of every size it tries
PageSizeIndexes(f) ==
    UNION {Range(PARSER_PAGE_SIZES[i], Min(PARSER_PAGE_SIZES[i] * 16, f.size),
                 PARSER_PAGE_SIZES[i]) :
              i \in {k \in 1..Len(PARSER_PAGE_SIZES) :
                        /\ f.size >= PARSER_PAGE_SIZES[k] * 4
                        /\ \A j \in 1..(k - 1) : ~ParserPageSizeOk(f, PARSER_PAGE_SIZES[j])}}

NoVersion == [major |-> 0, minor |-> 0, build |-> 0]

Triple(f, offset) ==
    [major |-> read_u16(f, offset),
     minor |-> read_u16(f, offset + 2),
     build |-> read_u16(f, offset + 4)]

\* a range check that lets major 16 through
PrimaryVersionOkWide(v) ==
    1 <= v.major /\ v.major <= 16 /\ v.minor <= 99 /\ v.build < 10000

PrimaryVersionOk(v) ==
    1 <= v.major /\ v.major <= 15 /\ v.minor <= 99 /\ v.build < 10000

FallbackVersionOk(v) ==
    5 <= v.major /\ v.major <= 10 /\ v.minor <= 10 /\ 1000 <= v.build /\ v.build < 3000

\* the check at 0x0C10 is made only for files longer than 0x0C16 bytes
PrimaryChecked(f) == f.size > VERSION_OFFSET + 6

\* offsets of the fallback scan whose triple is accepted
FallbackHits(f) ==
    {offset \in Range(3072, Min(4096, f.size - 6), 2) : FallbackVersionOk(Triple(f, offset))}

\* a search that forgets the floor of 0x0C00
StringTableGuessNoFloor(f, ps, prev) ==
    LET hits == {offset \in Range(2048, Min(12288, f.size), ps) :
                    offset < f.size /\ ByteAt(f, offset) % 16 = 4}
        first == CHOOSE o \in hits : \A q \in hits : o <= q
        found == IF hits # {} THEN first - 5120 ELSE prev
    IN  IF found = 0 THEN VERSION_OFFSET ELSE found

\* dictionary_offset after the search for a string-table page (kind 4)
StringTableGuess(f, ps, prev) ==
    LET hits == {offset \in Range(2048, Min(12288, f.size), ps) :
                    offset < f.size /\ ByteAt(f, offset) % 16 = 4}
        first == CHOOSE o \in hits : \A q \in hits : o <= q
        found == IF hits # {} THEN Max(3072, first - 5120) ELSE prev
    IN  IF found = 0 THEN VERSION_OFFSET ELSE found

\* GoproMDBParser._parse_mco_version: the new dictionary_offset and mco_version
parse_mco_version(f, ps, prevDict, prevVer) ==
    LET guess == StringTableGuess(f, ps, prevDict)
        hits == FallbackHits(f)
        first == CHOOSE o \in hits : \A q \in hits : o <= q
    IN  IF PrimaryChecked(f) /\ PrimaryVersionOk(Triple(f, VERSION_OFFSET))
        THEN [dictionary_offset |-> VERSION_OFFSET, mco_version |-> Triple(f, VERSION_OFFSET)]
        ELSE IF hits # {}
        THEN [dictionary_offset |-> first, mco_version |-> Triple(f, first)]
        ELSE [dictionary_offset |-> guess, mco_version |-> prevVer]

-----------------------------------------------------------------------------
(* GoproMDBParser: record slots *)

ExpectedSizes(schema) ==
    IF schema = "hero11+" THEN RECORD_SIZES.hero11 ELSE RECORD_SIZES.hero5

ExpectedSize(schema, table_id) ==
    IF table_id = 3
    THEN ExpectedSizes(schema).mdb_single_ex
    ELSE ExpectedSizes(schema).mdb_grouped_ex

SlotKind(f, slot_start) == ByteAt(f, slot_start) % 16

SlotTableId(f, slot_start) == read_u16(f, slot_start + 2)

SlotRecordSize(f, slot_start) == read_u32(f, slot_start + 4)

\* a tolerance that includes the limit itself
SizeMatchesInclusive(record_size, expected) == Abs(record_size - expected) <= 20

\* abs(record_size - expected) < 20
SizeMatches(record_size, expected) == Abs(record_size - expected) < 20

\* the test _scan_for_records makes on the slot at slot_start
SlotAccepted(f, schema, slot_start) ==
    LET table_id == SlotTableId(f, slot_start)
        record_size == SlotRecordSize(f, slot_start)
    IN  /\ SlotKind(f, slot_start) = 0
        /\ table_id \in {3, 4}
        /\ record_size.hi = 0
        /\ 40 < record_size.lo
        /\ record_size.lo < 200
        /\ SizeMatches(record_size.lo, ExpectedSize(schema, table_id))

\* (header, record_data) of an accepted slot; record_data is the window
\* data[slot_start + 16 : min(slot_start + 192, file_size)]
RawRecord(f, slot_start) ==
    [header |-> [table_id |-> SlotTableId(f, slot_start),
                 flags |-> 0,
                 size |-> SlotRecordSize(f, slot_start),
                 next_ptr |-> 0],
     data |-> Slice(f, slot_start + 16,
                    Min(slot_start + SLOT_SIZE + 64, f.size))]

\* slot starts of range(0x2C00, file_size - SLOT_SIZE, SLOT_SIZE)
\* a scan range that runs past the end of the file
SlotStartsPastEnd(f) == Range(DATA_ORIGIN, f.size + SLOT_SIZE, SLOT_SIZE)

SlotStarts(f) == Range(DATA_ORIGIN, f.size - SLOT_SIZE, SLOT_SIZE)

RECURSIVE ScanFrom(_, _, _)
ScanFrom(f, schema, slot_start) ==
    IF slot_start >= f.size - SLOT_SIZE
    THEN <<>>
    ELSE (IF SlotAccepted(f, schema, slot_start)
          THEN <<RawRecord(f, slot_start)>>
          ELSE <<>>) \o ScanFrom(f, schema, slot_start + SLOT_SIZE)

\* a scan that starts half a slot early
scan_for_records_unaligned(f, schema, prev) ==
    prev \o ScanFrom(f, schema, DATA_ORIGIN - 64)

\* GoproMDBParser._scan_for_records: appends to the raw_records it finds
scan_for_records(f, schema, prev) == prev \o ScanFrom(f, schema, DATA_ORIGIN)

-----------------------------------------------------------------------------
(* GoproMDBParser: record decoders.  A record buffer is a window w of the  *)
(* file; u_offsets are relative to the record body, which starts OID_SIZE  *)
(* bytes into the buffer.                                                  *)

OID_SIZE == 8

BufLen(w) == w.hi - w.lo

\* data[off] of the record buffer
BufByte(f, w, off) == ByteAt(f, w.lo + off)

buf_read_u8(f, w, u_offset) ==
    LET off == u_offset + OID_SIZE
    IN  IF off < BufLen(w) THEN BufByte(f, w, off) ELSE 0

buf_read_u16(f, w, u_offset) ==
    LET off == u_offset + OID_SIZE
    IN  IF off + 2 <= BufLen(w)
        THEN BufByte(f, w, off) + 256 * BufByte(f, w, off + 1)
        ELSE 0

buf_read_u32(f, w, u_offset) ==
    LET off == u_offset + OID_SIZE
    IN  IF off + 4 <= BufLen(w)
        THEN U32(BufByte(f, w, off) + 256 * BufByte(f, w, off + 1),
                 BufByte(f, w, off + 2) + 256 * BufByte(f, w, off + 3))
        ELSE U32Zero

\* a 64-bit value as its four 16-bit words, lowest first
U64Zero == <<0, 0, 0, 0>>

buf_read_u64(f, w, u_offset) ==
    LET off == u_offset + OID_SIZE
    IN  IF off + 8 <= BufLen(w)
        THEN [i \in 1..4 |-> BufByte(f, w, off + 2 * (i - 1))
                             + 256 * BufByte(f, w, off + 2 * (i - 1) + 1)]
        ELSE U64Zero

\* the bits of the 32-bit float; all-zero bits are 0.0
buf_read_f32(f, w, u_offset) == buf_read_u32(f, w, u_offset)

buf_read_bytes(f, w, u_offset, length) ==
    LET off == u_offset + OID_SIZE
    IN  IF off + length <= BufLen(w)
        THEN [i \in 1..length |-> BufByte(f, w, off + i - 1)]
        ELSE <<>>

DateTimeZero ==
    [year |-> 0, month |-> 0, day |-> 0, min |-> 0, hour |-> 0, second |-> 0]

\* a reading that takes the hour before the minute
read_datetime_hour_first(f, w, offset) ==
    IF offset + 7 <= BufLen(w)
    THEN [year |-> BufByte(f, w, offset) + 256 * BufByte(f, w, offset + 1),
          month |-> BufByte(f, w, offset + 2),
          day |-> BufByte(f, w, offset + 3),
          min |-> BufByte(f, w, offset + 5),
          hour |-> BufByte(f, w, offset + 4),
          second |-> BufByte(f, w, offset + 6)]
    ELSE DateTimeZero

\* GoproMDBParser._read_datetime_from_buffer, offset relative to the buffer
read_datetime_from_buffer(f, w, offset) ==
    IF offset + 7 <= BufLen(w)
    THEN [year |-> BufByte(f, w, offset) + 256 * BufByte(f, w, offset + 1),
          month |-> BufByte(f, w, offset + 2),
          day |-> BufByte(f, w, offset + 3),
          min |-> BufByte(f, w, offset + 4),
          hour |-> BufByte(f, w, offset + 5),
          second |-> BufByte(f, w, offset + 6)]
    ELSE DateTimeZero

buf_read_datetime(f, w, u_offset) ==
    read_datetime_from_buffer(f, w, u_offset + OID_SIZE)

SPACE == 32

RECURSIVE LStrip(_)
LStrip(s) == IF s # <<>> /\ Head(s) = SPACE THEN LStrip(Tail(s)) ELSE s

RECURSIVE RStrip(_)
RStrip(s) ==
    IF s # <<>> /\ s[Len(s)] = SPACE THEN RStrip(SubSeq(s, 1, Len(s) - 1)) ELSE s

\* str.strip() of a run of printable ASCII
Strip(s) == RStrip(LStrip(s))

Printable(b) == 32 <= b /\ b < 127

\* a closing that keeps a run of any length
CloseRunAnyLength(segments, current, min_segment_len) ==
    IF current # <<>> THEN Append(segments, Strip(current)) ELSE segments

\* the segments list after closing the run `current`
CloseRun(segments, current, min_segment_len) ==
    IF current # <<>> /\ Len(Strip(current)) >= min_segment_len
    THEN Append(segments, Strip(current))
    ELSE segments

RECURSIVE SegmentsFrom(_, _, _, _)
SegmentsFrom(raw, segments, current, min_segment_len) ==
    IF raw = <<>>
    THEN CloseRun(segments, current, min_segment_len)
    ELSE IF Printable(Head(raw))
         THEN SegmentsFrom(Tail(raw), segments, Append(current, Head(raw)),
                           min_segment_len)
         ELSE SegmentsFrom(Tail(raw),
                           CloseRun(segments, current, min_segment_len),
                           <<>>, min_segment_len)

RECURSIVE Join(_)
Join(segments) ==
    IF segments = <<>> THEN <<>>
    ELSE IF Head(segments) = <<>> THEN Join(Tail(segments))
    ELSE IF Join(Tail(segments)) = <<>> THEN Head(segments)
    ELSE Head(segments) \o <<SPACE>> \o Join(Tail(segments))

\* read_string of _parse_single_ex_data
buf_read_string(f, w, u_offset, max_len, min_segment_len) ==
    LET off == u_offset + OID_SIZE
        n == IF off + max_len > BufLen(w) THEN BufLen(w) - off ELSE max_len
    IN  IF n <= 0 THEN <<>>
        ELSE Join(SegmentsFrom([i \in 1..n |-> BufByte(f, w, off + i - 1)],
                               <<>>, <<>>, min_segment_len))

\* GoproMDBParser._parse_single_ex_data for a buffer of at least 100 bytes
SingleEx(f, w) ==
    [duration |-> buf_read_u64(f, w, 0),
     size |-> buf_read_u64(f, w, 8),
     file_handle |-> buf_read_u64(f, w, 16),
     media_status |-> buf_read_u32(f, w, 24),
     file_type_ex |-> buf_read_u32(f, w, 36),
     max_moment_score |-> buf_read_f32(f, w, 40),
     moment_cnt |-> buf_read_u16(f, w, 50),
     ctm |-> buf_read_datetime(f, w, 52),
     tag_cnt |-> buf_read_u16(f, w, 60),
     chp_cnt |-> buf_read_u16(f, w, 62),
     grp_no |-> buf_read_u16(f, w, 64),
     latm |-> buf_read_datetime(f, w, 66),
     total_tag_cnt |-> buf_read_u16(f, w, 74),
     dir_no |-> buf_read_u16(f, w, 76),
     last_scan_time |-> buf_read_datetime(f, w, 78),
     has_hdr |-> buf_read_u8(f, w, 85),
     is_clip |-> buf_read_u8(f, w, 86),
     file_scanned |-> buf_read_u8(f, w, 87),
     avc_level |-> buf_read_u8(f, w, 88),
     avc_profile |-> buf_read_u8(f, w, 89),
     protune_option |-> buf_read_u8(f, w, 90),
     aud_option |-> buf_read_u8(f, w, 91),
     has_eis |-> buf_read_u8(f, w, 92),
     f_meta_present |-> buf_read_u8(f, w, 93),
     projection |-> buf_read_u8(f, w, 94),
     lens_config |-> buf_read_u8(f, w, 96),
     camera_model |-> buf_read_string(f, w, 97, 30, 2),
     sub_model |-> buf_read_string(f, w, 128, 16, 2),
     width |-> 0,
     height |-> 0]

\* a decoder that asks for 120 bytes
parse_single_ex_data_120(f, w) ==
    IF BufLen(w) < 120 THEN <<>> ELSE <<SingleEx(f, w)>>

\* the records _parse_single_ex_data returns: none for a short buffer
parse_single_ex_data(f, w) ==
    IF BufLen(w) < 100 THEN <<>> ELSE <<SingleEx(f, w)>>

GusiBlob(raw) ==
    [raw |-> raw,
     session_id |-> IF Len(raw) >= 12
                    THEN U32(raw[1] + 256 * raw[2], raw[3] + 256 * raw[4])
                    ELSE U32Zero,
     recording_id |-> IF Len(raw) >= 12
                      THEN U32(raw[9] + 256 * raw[10], raw[11] + 256 * raw[12])
                      ELSE U32Zero]

ContentBlob(raw) ==
    [raw |-> raw,
     content_id_high |-> IF Len(raw) >= 16
                         THEN [i \in 1..4 |-> raw[2 * i - 1] + 256 * raw[2 * i]]
                         ELSE U64Zero,
     content_id_low |-> IF Len(raw) >= 16
                        THEN [i \in 1..4 |-> raw[8 + 2 * i - 1] + 256 * raw[8 + 2 * i]]
                        ELSE U64Zero]

\* GoproMDBParser._parse_grouped_ex_data for a buffer of at least 50 bytes
GroupedEx(f, w) ==
    [file_handle |-> buf_read_u64(f, w, 0),
     frame_rate_timescale |-> buf_read_u32(f, w, 8),
     frame_rate_duration |-> buf_read_u32(f, w, 12),
     n_elems |-> buf_read_u32(f, w, 16),
     grp_ctm |-> buf_read_datetime(f, w, 20),
     grp_no |-> buf_read_u16(f, w, 28),
     width |-> buf_read_u16(f, w, 30),
     height |-> buf_read_u16(f, w, 32),
     frame_rate_duration_indicator |-> buf_read_u8(f, w, 34),
     frame_rate_timescale_indicator |-> buf_read_u8(f, w, 35),
     gusi_blob |-> GusiBlob(buf_read_bytes(f, w, 36, 16)),
     f_is_subsample |-> buf_read_u8(f, w, 52),
     f_is_progressive |-> buf_read_u8(f, w, 53),
     f_is_progressive_indicator |-> buf_read_u8(f, w, 54),
     grp_no_indicator |-> buf_read_u8(f, w, 55),
     f_is_subsample_indicator |-> buf_read_u8(f, w, 56),
     blob |-> ContentBlob(buf_read_bytes(f, w, 57, 16))]

parse_grouped_ex_data(f, w) ==
    IF BufLen(w) < 50 THEN <<>> ELSE <<GroupedEx(f, w)>>

\* the loop of _find_and_parse_records over every raw record held
RECURSIVE DecodeAll(_, _, _)
DecodeAll(f, raws, table_id) ==
    IF raws = <<>> THEN <<>>
    ELSE (IF Head(raws).header.table_id # table_id THEN <<>>
          ELSE IF table_id = 3
               THEN parse_single_ex_data(f, Head(raws).data)
               ELSE parse_grouped_ex_data(f, Head(raws).data))
         \o DecodeAll(f, Tail(raws), table_id)

-----------------------------------------------------------------------------
(* GoproMDBParser.to_dict: an absent value (None) is <<>>, a value v is <<v>> *)

None == <<>>

Some(v) == <<v>>

\* the decimal digits of n as character codes
RECURSIVE Decimal(_)
Decimal(n) == IF n < 10 THEN <<48 + n>> ELSE Decimal(n \div 10) \o <<48 + (n % 10)>>

\* a formatting without padding
ZeroPadNone(n, width) == Decimal(n)

\* format(n, "0<width>d"): zero-padded to at least width characters
ZeroPad(n, width) ==
    [i \in 1..(width - Len(Decimal(n))) |-> 48] \o Decimal(n)

TEXT_GOPRO == <<71, 79, 80, 82, 79>>

\* "GX", chapter 0, the file number and ".MP4"
FileName(file_no) == <<71, 88, 48>> \o ZeroPad(file_no, 4) \o <<46, 77, 80, 52>>

\* a decoding that takes the directory from byte 3 of the handle
decode_file_handle_byte3(fh) ==
    LET dir_no == fh[2] \div 256
        file_no == fh[1]
    IN  [directory |-> ZeroPad(dir_no, 3) \o TEXT_GOPRO,
         file_number |-> file_no,
         type_flag |-> fh[4] \div 256,
         estimated_path |-> ZeroPad(dir_no, 3) \o TEXT_GOPRO \o <<47>> \o FileName(file_no)]

\* decode_file_handle: fh as its four 16-bit words, lowest first
decode_file_handle(fh) ==
    LET dir_no == fh[3] % 256
        file_no == fh[1]
    IN  [directory |-> ZeroPad(dir_no, 3) \o TEXT_GOPRO,
         file_number |-> file_no,
         type_flag |-> fh[4] \div 256,
         estimated_path |-> ZeroPad(dir_no, 3) \o TEXT_GOPRO \o <<47>> \o FileName(file_no)]

\* "if rec.file_handle": decoded unless the handle is zero
FileInfo(fh) == IF fh # U64Zero THEN Some(decode_file_handle(fh)) ELSE None

\* "YYYY-MM-DD HH:MM:SS"
Formatted(actual_year, dt) ==
    Decimal(actual_year) \o <<45>> \o ZeroPad(dt.month, 2) \o <<45>> \o ZeroPad(dt.day, 2)
    \o <<32>> \o ZeroPad(dt.hour, 2) \o <<58>> \o ZeroPad(dt.min, 2)
    \o <<58>> \o ZeroPad(dt.second, 2)

datetime_to_dict(dt) ==
    LET actual_year == IF dt.year > 0 THEN dt.year + 1980 ELSE 0
    IN  [year |-> dt.year,
         actual_year |-> actual_year,
         month |-> dt.month,
         day |-> dt.day,
         hour |-> dt.hour,
         minute |-> dt.min,
         second |-> dt.second,
         formatted |-> IF actual_year > 0 THEN Some(Formatted(actual_year, dt)) ELSE None]

\* "datetime_to_dict(x) if x else None": a DateTime object is always true
DateTimeOrNone(dt) == Some(datetime_to_dict(dt))

\* the value of a u32 whose high half is small enough for the arithmetic below
U32Value(v) == v.lo + 65536 * v.hi

\* a rounding that cuts the quotient off instead
FpsTruncated(timescale, duration) ==
    IF U32Value(duration) > 0
    THEN (100 * U32Value(timescale)) \div U32Value(duration)
    ELSE 0

\* round(timescale / duration, 2) in hundredths, 0 when duration is 0; a
\* quotient exactly half-way between two hundredths goes to the even one
\* (Python rounds the binary64 quotient, which is exact for the half-way
\* quotients of the records modelled)
Fps(timescale, duration) ==
    LET t == U32Value(timescale)
        d == U32Value(duration)
        q == (200 * t + d) \div (2 * d)
        tie == (200 * t + d) % (2 * d) = 0
    IN  IF d > 0
        THEN (IF tie /\ q % 2 = 1 THEN q - 1 ELSE q)
        ELSE 0

grouped_ex_to_dict(rec) ==
    [file_info |-> FileInfo(rec.file_handle),
     frame_rate_timescale |-> rec.frame_rate_timescale,
     frame_rate_duration |-> rec.frame_rate_duration,
     frame_rate_fps |-> Some(Fps(rec.frame_rate_timescale, rec.frame_rate_duration)),
     grp_no |-> Some(rec.grp_no),
     grp_ctm |-> DateTimeOrNone(rec.grp_ctm),
     f_is_progressive |-> Some(rec.f_is_progressive),
     f_is_subsample |-> Some(rec.f_is_subsample)]

single_ex_to_dict(rec) ==
    [file_info |-> FileInfo(rec.file_handle),
     ctm |-> DateTimeOrNone(rec.ctm),
     last_scan_time |-> DateTimeOrNone(rec.last_scan_time),
     latm |-> DateTimeOrNone(rec.latm),
     camera_model |-> Some(rec.camera_model),
     sub_model |-> Some(rec.sub_model),
     dir_no |-> Some(rec.dir_no),
     grp_no |-> Some(rec.grp_no),
     moment_cnt |-> Some(rec.moment_cnt),
     total_tag_cnt |-> Some(rec.total_tag_cnt),
     max_moment_score |-> Some(rec.max_moment_score),
     tag_cnt |-> Some(rec.tag_cnt),
     chp_cnt |-> Some(rec.chp_cnt),
     avc_profile |-> Some(rec.avc_profile)]

NoOutput ==
    [made |-> FALSE, header_valid |-> FALSE, schema_version |-> "unknown",
     mco_version |-> None, page_size |-> 0, dictionary_offset |-> None,
     singles_ex |-> <<>>, grouped_ex |-> <<>>]

to_dict ==
    [made |-> TRUE,
     header_valid |-> header_valid,
     schema_version |-> schema_version,
     mco_version |-> IF mco_version.major > 0 THEN Some(mco_version) ELSE None,
     page_size |-> page_size,
     dictionary_offset |-> IF dictionary_offset # 0 THEN Some(dictionary_offset) ELSE None,
     singles_ex |-> [i \in 1..Len(singles_ex) |-> single_ex_to_dict(singles_ex[i])],
     grouped_ex |-> [i \in 1..Len(grouped_ex) |-> grouped_ex_to_dict(grouped_ex[i])]]

-----------------------------------------------------------------------------
(* MCOPageAnalyzer: page size *)

COMMON_PAGE_SIZES == <<256, 512, 1024, 2048, 4096>>

ANALYZER_MIN_SIZE == 1024

\* MCOPageHeader.from_bytes(data[offset:offset + 8])
AnHeader(f, offset) ==
    IF Min(offset + 8, f.size) - Min(offset, f.size) < 8
    THEN [kind |-> 0, user |-> 0]
    ELSE [kind |-> ByteAt(f, offset),
          user |-> ByteAt(f, offset + 2) + 256 * ByteAt(f, offset + 3)]

\* a probe the scoring loop counts as valid
ProbeValid(h) ==
    \/ /\ (h.kind % 16) \in {0, 1, 2, 3, 4, 5, 6, 7, 8, 10, 11, 12, 15}
       /\ (h.kind - (h.kind % 16)) \in {0, 16, 32, 48} \/ h.kind = 255
       /\ h.user < 256 \/ h.user = 65535
    \/ h.kind = 255
    \/ h.kind = 0

Probes(f, ps) == Range(ps, Min(ps * 20, f.size), ps)

\* a score that counts the valid probes only
ScoreValidOnly(f, ps) ==
    Cardinality({o \in Probes(f, ps) : ProbeValid(AnHeader(f, o))})

\* valid_count - invalid_count of candidate ps
Score(f, ps) ==
    LET valid == Cardinality({o \in Probes(f, ps) : ProbeValid(AnHeader(f, o))})
    IN  valid - (Cardinality(Probes(f, ps)) - valid)

\* candidates the loop scores: file_size >= ps * 4
Eligible(f, ps) == f.size >= ps * 4

RECURSIVE BestFrom(_, _, _, _)
BestFrom(f, i, best_ps, best_score) ==
    IF i > Len(COMMON_PAGE_SIZES) THEN best_ps
    ELSE LET ps == COMMON_PAGE_SIZES[i]
         IN  IF Eligible(f, ps) /\ Score(f, ps) > best_score
             THEN BestFrom(f, i + 1, ps, Score(f, ps))
             ELSE BestFrom(f, i + 1, best_ps, best_score)

\* MCOPageAnalyzer._detect_page_size
an_detect_page_size(f) == BestFrom(f, 1, 1024, 0)

-----------------------------------------------------------------------------
(* MCOPageAnalyzer: database info, page walk, unknowns *)

NoDbInfo == [format_version |-> 0, mco_version |-> NoVersion, dictionary_offset |-> 0]

\* MCOPageAnalyzer._parse_database_info: prev is db_info before the call
parse_database_info(f, prev) ==
    LET v == Triple(f, VERSION_OFFSET)
        ok == /\ f.size > VERSION_OFFSET + 8
              /\ 1 <= v.major /\ v.major <= 15 /\ v.minor <= 99 /\ v.build < 10000
        fv == read_u32(f, HEADER_SIZE + 8)
        fvok == f.size > HEADER_SIZE + 16 /\ fv.hi = 0 /\ 1 <= fv.lo /\ fv.lo <= 10
    IN  [format_version |-> IF fvok THEN fv.lo ELSE prev.format_version,
         mco_version |-> IF ok THEN v ELSE prev.mco_version,
         dictionary_offset |-> IF ok THEN VERSION_OFFSET ELSE prev.dictionary_offset]

\* MCOPageHeader.from_bytes of the bytes at offset, length of them given
from_bytes(f, offset, length) ==
    IF length < 8
    THEN [kind |-> 0, extraflags |-> 0, user |-> 0, align |-> <<0, 0, 0, 0>>]
    ELSE [kind |-> ByteAt(f, offset),
          extraflags |-> ByteAt(f, offset + 1),
          user |-> ByteAt(f, offset + 2) + 256 * ByteAt(f, offset + 3),
          align |-> [i \in 1..4 |-> ByteAt(f, offset + 3 + i)]]

\* MCOPageHeader.page_type and page_flags
page_type(header) == header.kind % 16

page_flags(header) == header.kind - (header.kind % 16)

\* the MCOPage the walk makes of the bytes at offset
MCOPage(f, ps, offset) ==
    [offset |-> offset,
     size |-> ps,
     header |-> from_bytes(f, offset, Min(8, f.size - offset)),
     data |-> Slice(f, offset + 8, offset + ps)]

\* a walk that skips the page at offset 0
RECURSIVE PagesFromSecond(_, _, _)
PagesFromSecond(f, ps, offset) ==
    IF offset + ps >= f.size \/ Min(ps, f.size - offset - ps) < 8
    THEN <<>>
    ELSE <<MCOPage(f, ps, offset + ps)>> \o PagesFromSecond(f, ps, offset + ps)

\* the loop of _scan_pages from offset on
RECURSIVE PagesFrom(_, _, _)
PagesFrom(f, ps, offset) ==
    IF offset >= f.size \/ Min(ps, f.size - offset) < 8
    THEN <<>>
    ELSE <<MCOPage(f, ps, offset)>> \o PagesFrom(f, ps, offset + ps)

\* MCOPageAnalyzer._scan_pages: appends to the pages held
scan_pages(f, ps, prev) == prev \o PagesFrom(f, ps, 0)

ANALYZER_KNOWN_KINDS == {0, 1, 2, 3, 4, 5, 6, 7, 8, 10, 11, 12, 15}

\* the entries _identify_unknowns appends for one page (offsets and kinds
\* are kept as numbers)
UnknownEntries(page) ==
    (IF page_type(page.header) \notin ANALYZER_KNOWN_KINDS /\ page_type(page.header) # 255
     THEN <<[type |-> "unknown_page_kind", offset |-> page.offset,
             kind |-> page_type(page.header)]>>
     ELSE <<>>)
    \o (IF (page_flags(page.header) \div 64) % 4 # 0
        THEN <<[type |-> "unusual_flags", offset |-> page.offset,
                flags |-> page_flags(page.header)]>>
        ELSE <<>>)

RECURSIVE UnknownsOf(_)
UnknownsOf(pages) ==
    IF pages = <<>> THEN <<>>
    ELSE UnknownEntries(Head(pages)) \o UnknownsOf(Tail(pages))

\* MCOPageAnalyzer._identify_unknowns: looks at every page held and appends
identify_unknowns(pages, prev) == prev \o UnknownsOf(pages)

\* MCOPageAnalyzer.get_page_summary: number of pages of each kind present
get_page_summary(pages) ==
    [k \in {page_type(pages[i].header) : i \in DOMAIN pages}
        |-> Cardinality({i \in DOMAIN pages : page_type(pages[i].header) = k})]

-----------------------------------------------------------------------------
(* PageAnalyzer of gopro_mdb_parser.py *)

PAGE_KIND_NAMES ==
    <<"DATA", "EXTENSION", "BTREE_LEAF", "BTREE_NODE", "AUTOID_HASH",
      "AUTOID_OVF", "BLOB_HEAD", "BLOB_CONT", "INDEX_DIR", "HASH_OVF", "TRANS",
      "FREELIST", "FIXREC", "UNKNOWN_13", "STRING_EXT", "TEMP">>

\* PageAnalyzer._parse_page: a page of fewer than 8 bytes keeps the defaults
parse_page(f, ps, offset) ==
    LET w == Slice(f, offset, offset + ps)
        b == ByteAt(f, offset)
    IN  IF BufLen(w) < 8
        THEN [offset |-> offset, kind |-> 0, kind_name |-> "", flags |-> 0,
              extraflags |-> 0, user |-> 0, align_data |-> U32Zero, data |-> w]
        ELSE [offset |-> offset,
              kind |-> b % 16,
              kind_name |-> PAGE_KIND_NAMES[(b % 16) + 1],
              flags |-> b - (b % 16),
              extraflags |-> ByteAt(f, offset + 1),
              user |-> ByteAt(f, offset + 2) + 256 * ByteAt(f, offset + 3),
              align_data |-> U32(ByteAt(f, offset + 4) + 256 * ByteAt(f, offset + 5),
                                 ByteAt(f, offset + 6) + 256 * ByteAt(f, offset + 7)),
              data |-> w]

\* PageAnalyzer.analyze_all: a fresh list of the pages at range(0, len, ps)
analyze_all(f, ps) ==
    [k \in 1..Cardinality(Range(0, f.size, ps)) |-> parse_page(f, ps, (k - 1) * ps)]

\* PageInfo.flag_names
flag_names(flags) ==
    (IF (flags \div 16) % 2 = 1 THEN <<"COMPACT">> ELSE <<>>)
    \o (IF (flags \div 32) % 2 = 1 THEN <<"HAS_BLOBS">> ELSE <<>>)
    \o (IF (flags \div 64) % 2 = 1 THEN <<"FLAG_2">> ELSE <<>>)
    \o (IF (flags \div 128) % 2 = 1 THEN <<"FLAG_3">> ELSE <<>>)

\* bytes.decode('utf-8', errors='replace') as code points, for bytes below
\* 0x80 and bytes that belong to no UTF-8 sequence (0xFF), each of which
\* becomes U+FFFD
Decode(bytes) == [i \in DOMAIN bytes |-> IF bytes[i] < 128 THEN bytes[i] ELSE 65533]

\* the loop of parse_string_ext_page from index i of the file on: a string
\* starts at a byte in 0x20..0x7E and runs to the next null byte or the end
\* of the page; any other byte is stepped over (all of them up to the next
\* byte in 0x20..0x7E at once)
RECURSIVE StringsFrom(_, _, _)
StringsFrom(f, w, i) ==
    IF i >= w.hi THEN <<>>
    ELSE IF Printable(ByteAt(f, i))
    THEN LET nulls == {e \in i..(w.hi - 1) : ByteAt(f, e) = 0}
             end == IF nulls = {} THEN w.hi
                    ELSE CHOOSE e \in nulls : \A q \in nulls : e <= q
             str == Decode([k \in 1..(end - i) |-> ByteAt(f, i + k - 1)])
         IN  (IF Len(str) >= 2 THEN <<[offset |-> i - w.lo, value |-> str]>> ELSE <<>>)
             \o StringsFrom(f, w, end + 1)
    ELSE LET later == {o \in DOMAIN f.mem : o > i /\ o < w.hi /\ Printable(f.mem[o])}
         IN  IF later = {} THEN <<>>
             ELSE StringsFrom(f, w, CHOOSE o \in later : \A q \in later : o <= q)

\* PageAnalyzer.parse_string_ext_page
parse_string_ext_page(f, page) ==
    IF page.kind # 14
    THEN [error |-> "Not a STRING_EXT page"]
    ELSE [type |-> "STRING_EXT",
          offset |-> page.offset,
          flags |-> flag_names(page.flags),
          strings |-> StringsFrom(f, page.data, page.data.lo)]

-----------------------------------------------------------------------------
(* main() of gopro_mdb_parser.py *)

\* command lines argparse rejects
ARG_ERRORS == {"no_database", "unrecognized", "exclusive"}

\* the output options, "summary" being none of them, and --hex with
\* arguments that are numbers ("hex") or not ("hex_bad")
OPTIONS ==
    {"summary", "json", "dict", "analyze", "strings", "fields", "pages", "hex",
     "hex_bad"}

\* what the DATABASE argument names
PATHS == {"file", "missing", "directory"}

\* no command is running: the classes are used as a library
NoCli == [run |-> FALSE, args |-> "none", path |-> "none"]

\* 0x0C00 + 0x200: DictionaryParser.parse() refuses shorter data
DICT_MIN_SIZE == 3584

\* exit status of a command that stops before parse() returns, None if it
\* goes on: argparse errors exit 2, --help exits 0, a missing path is
\* reported through argparser.error, open() of a directory raises
exit_before_parse(c) ==
    IF c.args \in ARG_ERRORS THEN Some(2)
    ELSE IF c.args = "help" THEN Some(0)
    ELSE IF c.path = "missing" THEN Some(2)
    ELSE IF c.path = "directory" THEN Some(1)
    ELSE None

\* exit status of the output branch taken after parse() returned True
exit_after_parse(c, f) ==
    IF c.args = "dict" /\ f.size < DICT_MIN_SIZE THEN 1
    ELSE IF c.args = "hex_bad" THEN 2
    ELSE 0

-----------------------------------------------------------------------------
(* Input files.  Each family varies the bytes one part of the decoder      *)
(* reads and keeps the rest at the values of an ordinary camera file.      *)

\* largest number of records in the data region of an input
MaxRecords == 2

NoBytes == [o \in {} |-> 0]

Magic == Put(0, EXPECTED_MAGIC)

\* the names present, each followed by a null byte, placed at off
Names(off, cm, vm, vt) ==
    Put(off, (IF cm THEN NAME_camera_model \o <<0>> ELSE <<>>)
             \o (IF vm THEN NAME_vmoment \o <<0>> ELSE <<>>)
             \o (IF vt THEN NAME_vtag \o <<0>> ELSE <<>>))

\* usual place of the name table (0x1010)
NAMES_AT == 4 * HEADER_SIZE + 16

VersionAt(off, v) == Put(off, LE16(v[1]) \o LE16(v[2]) \o LE16(v[3]))

UsualVersion == <<7, 1, 1793>>

SlotHead(slot, kind_byte, table_id, size_lo, size_hi) ==
    Put(slot, <<kind_byte, 0>> \o LE16(table_id) \o LE16(size_lo) \o LE16(size_hi))

\* the body bytes of a record, placed after the slot header and the OID
BodyAt(slot, u_offset, bytes) == Put(slot + 16 + OID_SIZE + u_offset, bytes)

TEXT_HERO11 == <<72, 69, 82, 79, 49, 49>>

TEXT_Black == <<66, 108, 97, 99, 107>>

HANDLE_BYTES == <<1, 0, 0, 100, 0, 0, 0, 1>>

\* a single_ex record in the newer layout
SingleNewBody(slot) ==
    BodyAt(slot, 0, <<64, 226, 1, 0, 0, 0, 0, 0>>)
    @@ BodyAt(slot, 8, <<0, 0, 0, 0, 10, 0, 0, 0>>)
    @@ BodyAt(slot, 16, HANDLE_BYTES)
    @@ BodyAt(slot, 36, <<0, 16, 0, 0>>)
    @@ BodyAt(slot, 40, <<0, 0, 128, 63>>)
    @@ BodyAt(slot, 50, LE16(3))
    @@ BodyAt(slot, 52, <<42, 0, 5, 17, 30, 14, 59>>)
    @@ BodyAt(slot, 60, LE16(2) \o LE16(1) \o LE16(7))
    @@ BodyAt(slot, 74, LE16(5) \o LE16(100))
    @@ BodyAt(slot, 78, <<43, 0, 1, 2, 3, 4, 5>>)
    @@ BodyAt(slot, 89, <<100>>)
    @@ BodyAt(slot, 97, TEXT_HERO11 \o <<0>> \o TEXT_Black)
    @@ BodyAt(slot, 128, TEXT_Black)

\* a single_ex record in the older layout (78 bytes)
SingleOldBody(slot) ==
    BodyAt(slot, 0, <<1, 0, 0, 0>>)
    @@ BodyAt(slot, 4, <<96, 234, 0, 0, 0, 0, 0, 0>>)
    @@ BodyAt(slot, 12, <<64, 66, 15, 0, 0, 0, 0, 0>>)
    @@ BodyAt(slot, 24, HANDLE_BYTES)
    @@ BodyAt(slot, 36, LE16(2))
    @@ BodyAt(slot, 38, <<36, 0, 6, 15, 20, 10, 30>>)
    @@ BodyAt(slot, 46, <<36, 0, 6, 16, 21, 11, 31>>)
    @@ BodyAt(slot, 54, LE16(1))
    @@ BodyAt(slot, 56, <<36, 0, 6, 15, 20, 10, 30>>)
    @@ BodyAt(slot, 69, <<41>>)
    @@ BodyAt(slot, 75, <<100>>)

\* a grouped_ex record in the newer layout
GroupedBody(slot) ==
    BodyAt(slot, 0, HANDLE_BYTES)
    @@ BodyAt(slot, 8, <<48, 117, 0, 0>>)
    @@ BodyAt(slot, 12, <<233, 3, 0, 0>>)
    @@ BodyAt(slot, 16, <<4, 0, 0, 0>>)
    @@ BodyAt(slot, 20, <<42, 0, 5, 17, 30, 14, 59>>)
    @@ BodyAt(slot, 28, LE16(7) \o LE16(3840) \o LE16(2160))
    @@ BodyAt(slot, 34, <<1, 1>>)
    @@ BodyAt(slot, 36, <<120, 86, 52, 18, 0, 0, 0, 0, 240, 222, 188, 154, 0, 0, 0, 0>>)
    @@ BodyAt(slot, 52, <<0, 1, 1, 1, 0>>)
    @@ BodyAt(slot, 57, [i \in 1..16 |-> i])

\* a single_ex record whose ctm has year 0 and the other fields set
SingleYearZeroBody(slot) ==
    BodyAt(slot, 52, <<0, 0, 5, 17, 30, 14, 59>>) @@ SingleNewBody(slot)

\* grouped_ex records with other frame rates: timescale, duration
GroupedRateBody(slot, timescale, duration) ==
    BodyAt(slot, 8, LE16(timescale) \o <<0, 0>> \o LE16(duration) \o <<0, 0>>)
    @@ GroupedBody(slot)

\* a grouped_ex record whose five indicator bytes are 0 while the fields
\* they govern hold values
GroupedNoIndicatorBody(slot) ==
    BodyAt(slot, 34, <<0, 0>>) @@ BodyAt(slot, 52, <<1, 1, 0, 0, 0>>)
    @@ GroupedBody(slot)

Body(kind, slot) ==
    CASE kind = "new" -> SingleNewBody(slot)
      [] kind = "old" -> SingleOldBody(slot)
      [] kind = "grp" -> GroupedBody(slot)
      [] kind = "y0" -> SingleYearZeroBody(slot)
      [] kind = "grp0" -> GroupedRateBody(slot, 30000, 0)
      [] kind = "grp3" -> GroupedRateBody(slot, 2, 3)
      [] kind = "grp8" -> GroupedRateBody(slot, 1, 8)
      [] kind = "grp1" -> GroupedRateBody(slot, 60, 1)
      [] kind = "grpi" -> GroupedNoIndicatorBody(slot)
      [] OTHER -> NoBytes

\* slot of the k-th record: a record and its tail take two slots
RecordSlot(k) == DATA_ORIGIN + 2 * SLOT_SIZE * (k - 1)

\* size of a file holding n records and 64 bytes after them
SizeFor(n) == RecordSlot(n + 1) + 64

\* records 2..n: grouped_ex records of the usual size
RECURSIVE MoreRecords(_)
MoreRecords(n) ==
    IF n <= 1 THEN NoBytes
    ELSE SlotHead(RecordSlot(n), 0, 4, 73, 0) @@ GroupedBody(RecordSlot(n))
         @@ MoreRecords(n - 1)

SlotHeads ==
    {[kind_byte |-> 0, table_id |-> 3, body |-> "new"],
     [kind_byte |-> 0, table_id |-> 3, body |-> "old"],
     [kind_byte |-> 0, table_id |-> 4, body |-> "grp"],
     [kind_byte |-> 16, table_id |-> 3, body |-> "new"],
     [kind_byte |-> 1, table_id |-> 3, body |-> "new"],
     [kind_byte |-> 0, table_id |-> 2, body |-> "none"],
     [kind_byte |-> 0, table_id |-> 5, body |-> "none"]}

\* record sizes around every limit of the acceptance test, as (lo, hi) halves
RecordSizes ==
    {<<x, 0>> : x \in {40, 41, 53, 54, 57, 73, 76, 77, 78, 92, 93, 97, 98,
                       114, 115, 134, 153, 154, 199, 200}}
    \cup {<<134, 1>>}

\* the names present in a file of n records (camera_model, vmoment, vtag):
\* one combination for each generation for one record, those of an ordinary
\* camera file for more
ScanNames(n) ==
    IF n = 1
    THEN {<<TRUE, TRUE, FALSE>>, <<TRUE, FALSE, FALSE>>, <<FALSE, FALSE, TRUE>>,
          <<FALSE, FALSE, FALSE>>}
    ELSE {<<TRUE, TRUE, FALSE>>}

\* files whose first record slot varies
ScanFiles ==
    UNION {{MkFile(SizeFor(n),
                   Magic @@ Names(NAMES_AT, nm[1], nm[2], nm[3])
                   @@ VersionAt(VERSION_OFFSET, UsualVersion)
                   @@ SlotHead(DATA_ORIGIN, h.kind_byte, h.table_id, sz[1], sz[2])
                   @@ Body(h.body, DATA_ORIGIN) @@ MoreRecords(n)) :
               nm \in ScanNames(n), h \in SlotHeads, sz \in RecordSizes} :
           n \in 1..MaxRecords}


\* a grouped_ex record of the usual size in the first slot
OneGrouped == SlotHead(DATA_ORIGIN, 0, 4, 73, 0) @@ GroupedBody(DATA_ORIGIN)

\* file lengths around the limits of version detection
VersionFileSizes == {1280, 3090, 3094, 3095, 3110, 3111, SizeFor(1)}

PrimaryTriples == {<<0, 0, 0>>, <<7, 1, 1793>>, <<12, 50, 5000>>, <<16, 0, 100>>}

\* a second triple elsewhere in the dictionary region (offset, triple)
SecondTriples ==
    {<<0, <<0, 0, 0>>>>,
     <<3076, <<5, 0, 1784>>>>, <<3104, <<5, 0, 1784>>>>,
     <<3104, <<10, 10, 2999>>>>, <<3104, <<11, 0, 1784>>>>,
     <<4094, <<5, 0, 1784>>>>, <<4096, <<5, 0, 1784>>>>}

\* offset of a page header of kind 4 (0: none)
StringPages == {0, 2048, 9216}

\* files whose dictionary region varies
VersionFiles ==
    {MkFile(size,
            Magic @@ Names(NAMES_AT, TRUE, TRUE, FALSE)
            @@ VersionAt(VERSION_OFFSET, v)
            @@ (IF w[1] = 0 THEN NoBytes ELSE VersionAt(w[1], w[2]))
            @@ (IF k = 0 THEN NoBytes ELSE Put(k, <<4>>))
            @@ OneGrouped) :
        size \in VersionFileSizes, v \in PrimaryTriples, w \in SecondTriples,
        k \in StringPages}

\* files whose magic is damaged in one byte (offset, value)
Damage == {<<0, 1>>, <<5, 0>>, <<11, 8>>}

FirstRecords ==
    {[table_id |-> 3, size |-> 134, body |-> "new"],
     [table_id |-> 3, size |-> 78, body |-> "old"],
     [table_id |-> 4, size |-> 73, body |-> "grp"],
     [table_id |-> 3, size |-> 134, body |-> "y0"],
     [table_id |-> 4, size |-> 73, body |-> "grp0"],
     [table_id |-> 4, size |-> 73, body |-> "grp3"],
     [table_id |-> 4, size |-> 73, body |-> "grp8"],
     [table_id |-> 4, size |-> 73, body |-> "grp1"],
     [table_id |-> 4, size |-> 73, body |-> "grpi"]}

MagicFiles ==
    {MkFile(SizeFor(1),
            Put(d[1], <<d[2]>>) @@ Magic @@ Names(NAMES_AT, cm, vm, vt)
            @@ VersionAt(VERSION_OFFSET, v)
            @@ SlotHead(DATA_ORIGIN, 0, r.table_id, r.size, 0)
            @@ Body(r.body, DATA_ORIGIN)) :
        d \in Damage, cm \in BOOLEAN, vm \in BOOLEAN, vt \in BOOLEAN,
        v \in {<<0, 0, 0>>, UsualVersion}, r \in FirstRecords}

\* files shorter than the decoder accepts; names and version sit low enough
\* to be inside them
ShortFiles ==
    {MkFile(size,
            Magic @@ Names(32, cm, vm, vt) @@ Put(256, <<9>>)
            @@ VersionAt(HEADER_SIZE, UsualVersion)) :
        size \in {0, 11, 100, 1023, 1024, 1279}, cm \in BOOLEAN, vm \in BOOLEAN,
        vt \in BOOLEAN}

\* level of the page boundary at offset o: the power of two (capped at 4)
\* by which o / 256 is divisible
Level(o) ==
    LET k == o \div 256
    IN  IF k % 2 = 1 THEN 0
        ELSE IF k % 4 = 2 THEN 1
        ELSE IF k % 8 = 4 THEN 2
        ELSE IF k % 16 = 8 THEN 3
        ELSE 4

\* header bytes that do not look like a page header
BadHeaders == {<<9, 0, 0, 0>>, <<1, 0, 0, 1>>, <<65, 0, 0, 0>>}

PageFileSizes == {1024, 2047, 2048, 4096, 8192, SizeFor(1), 16384, 20480}

\* files whose page boundaries of the chosen levels carry a bad header
PageFiles ==
    {MkFile(size,
            Magic @@ Names(NAMES_AT + 16, TRUE, TRUE, FALSE)
            @@ [o \in {x \in 1..(size - 1) : x % 256 < 4 /\ Level(x - (x % 256)) \in bad}
                  |-> h[(o % 256) + 1]]
            @@ VersionAt(VERSION_OFFSET + 16, UsualVersion)) :
        size \in PageFileSizes, bad \in SUBSET (0..4), h \in BadHeaders}

\* bytes past the first slot at which a file ends
Tails == {128, 129, 133, 137, 150, 175, 191, 192, 193}

\* files that end inside or just after the record of the first slot
TailFiles ==
    {MkFile(DATA_ORIGIN + t,
            Magic @@ Names(NAMES_AT, TRUE, TRUE, FALSE)
            @@ VersionAt(VERSION_OFFSET, UsualVersion)
            @@ SlotHead(DATA_ORIGIN, 0, r.table_id, r.size, 0)
            @@ Body(r.body, DATA_ORIGIN)
            @@ [o \in (DATA_ORIGIN + 100)..(DATA_ORIGIN + 200) |-> 65 + (o % 7)]) :
        t \in Tails, r \in FirstRecords}

\* offsets, relative to 0x2C00, at which a slot header may be written
HeaderPlaces == {0 - 128, 0 - 64, 64, 128, 200}

\* files with well-formed slot headers on and off the slot grid
AlignFiles ==
    {MkFile(SizeFor(2),
            Magic @@ Names(NAMES_AT, TRUE, TRUE, FALSE)
            @@ VersionAt(VERSION_OFFSET, UsualVersion)
            @@ [o \in UNION {(DATA_ORIGIN + d)..(DATA_ORIGIN + d + 7) : d \in places}
                  |-> LET d == CHOOSE x \in places :
                                  o \in (DATA_ORIGIN + x)..(DATA_ORIGIN + x + 7)
                      IN  SlotHead(DATA_ORIGIN + d, 0, r.table_id, r.size, 0)[o]]) :
        places \in SUBSET HeaderPlaces, r \in FirstRecords}

\* file handles: directory (byte 4), file number (bytes 0-1), type (byte 7)
\* and a value for the bytes 2, 3, 5 and 6
Handles ==
    {<<file_no % 256, file_no \div 256, x, x, dir_no, x, x, type_flag>> :
        dir_no \in {0, 7, 100, 255}, file_no \in {0, 1, 255, 256, 9999},
        type_flag \in {0, 1, 255}, x \in {0, 171}}

\* files whose only record carries one of the handles
HandleFiles ==
    {MkFile(SizeFor(1),
            Magic @@ Names(NAMES_AT, TRUE, TRUE, FALSE)
            @@ VersionAt(VERSION_OFFSET, UsualVersion)
            @@ SlotHead(DATA_ORIGIN, 0, 3, 134, 0)
            @@ BodyAt(DATA_ORIGIN, 16, h) @@ SingleNewBody(DATA_ORIGIN)) :
        h \in Handles}

\* seq followed by null bytes up to the given length
Padded(seq, length) == seq \o [i \in 1..(length - Len(seq)) |-> 0]

\* contents of the camera_model field: runs of text between other bytes
ModelTexts ==
    {TEXT_HERO11 \o <<0>> \o TEXT_Black,
     TEXT_HERO11 \o <<0, 88, 0>> \o TEXT_Black,
     <<SPACE>> \o TEXT_HERO11 \o <<SPACE, 0, SPACE, SPACE>> \o TEXT_Black \o <<SPACE>>,
     TEXT_HERO11 \o <<SPACE, SPACE>> \o TEXT_Black,
     <<65, 126, 127, 66, 31, SPACE, 67, 100, 255, 33, 34>>,
     <<SPACE, SPACE, 0, 72, 105, 0, SPACE, 88, SPACE, 0, 90>>,
     <<88>>,
     <<>>,
     [i \in 1..30 |-> 64 + i]}

\* contents of the sub_model field
SubModelTexts ==
    {TEXT_Black, TEXT_Black \o <<0, 77, 0>> \o <<77, 105, 110, 105>>,
     [i \in 1..16 |-> 96 + i]}

\* files whose only record carries the texts, with text after each field
StringFiles ==
    {MkFile(SizeFor(1),
            Magic @@ Names(NAMES_AT, TRUE, TRUE, FALSE)
            @@ VersionAt(VERSION_OFFSET, UsualVersion)
            @@ SlotHead(DATA_ORIGIN, 0, 3, 134, 0)
            @@ BodyAt(DATA_ORIGIN, 97, Padded(cm, 30) \o <<75>>)
            @@ BodyAt(DATA_ORIGIN, 128, Padded(sm, 16) \o <<75, 76>>)
            @@ SingleNewBody(DATA_ORIGIN)) :
        cm \in ModelTexts, sm \in SubModelTexts}

\* the k-th of several records: its file number is k
NumberedBody(table_id, slot, k) ==
    IF table_id = 3
    THEN BodyAt(slot, 16, <<k, 0, 0, 0, 100, 0, 0, 1>>) @@ SingleNewBody(slot)
    ELSE BodyAt(slot, 0, <<k, 0, 0, 0, 100, 0, 0, 1>>) @@ GroupedBody(slot)

RECURSIVE NumberedRecords(_, _)
NumberedRecords(tabs, n) ==
    IF n = 0 THEN NoBytes
    ELSE SlotHead(RecordSlot(n), 0, tabs[n], IF tabs[n] = 3 THEN 134 ELSE 73, 0)
         @@ NumberedBody(tabs[n], RecordSlot(n), n)
         @@ NumberedRecords(tabs, n - 1)

\* files of several numbered records that end at, just after and 64 bytes
\* after the slot of the last one
OrderFiles ==
    {MkFile(RecordSlot(MaxRecords + 1) + t,
            Magic @@ Names(NAMES_AT, TRUE, TRUE, FALSE)
            @@ VersionAt(VERSION_OFFSET, UsualVersion)
            @@ NumberedRecords(tabs, MaxRecords + 1)) :
        tabs \in [1..(MaxRecords + 1) -> {3, 4}], t \in {128, 129, 192}}

\* kind bytes of page headers: kinds of every sort, with and without flags
KindBytes == {0, 2, 4, 9, 10, 13, 14, 15, 28, 46, 73, 78, 141, 195, 255}

\* files of four 1024-byte pages whose second and third page carry the
\* kind bytes, with a format version (0: none) in the second
KindFiles ==
    {MkFile(4 * HEADER_SIZE,
            Magic @@ VersionAt(VERSION_OFFSET, UsualVersion)
            @@ Put(HEADER_SIZE, <<k>>) @@ Put(HEADER_SIZE + 8, <<fv>>)
            @@ Put(2 * HEADER_SIZE, <<j>>)) :
        k \in KindBytes, j \in {0, 14, 141}, fv \in {0, 3, 11}}

\* the first bytes of the page at 0x1000: a header and text
PageTexts ==
    {<<14, 0, 0, 0, 0, 0, 0, 0>> \o Padded(<<>>, 8)
        \o NAME_camera_model \o <<0>> \o NAME_vmoment \o <<0>>,
     <<4, 0, 0, 0, 0, 0, 0, 0>> \o Padded(<<>>, 8)
        \o NAME_camera_model \o <<0>> \o NAME_vmoment \o <<0>>,
     <<46, 1, 3, 0, 0, 0, 0, 0>> \o Padded(<<>>, 8) \o NAME_vtag \o <<0>>,
     <<14, 0, 0, 0, 0, 0, 0, 0, 65, 66, 1, 67, 0, 88, 0, 72, 105, 0>>,
     <<14, 0, 0, 0, 0, 0, 0, 0, 65, 255, 66, 0>>}

\* files with a page of text at 0x1000, with or without text in the last
\* two bytes of its first 512, that end at, 3 and 8 bytes after 0x2000
StringExtFiles ==
    {MkFile(8 * HEADER_SIZE + t,
            Magic @@ VersionAt(VERSION_OFFSET, UsualVersion)
            @@ Put(4 * HEADER_SIZE, text)
            @@ (IF last THEN Put(4 * HEADER_SIZE + 510, <<90, 90>>) ELSE NoBytes)) :
        text \in PageTexts, last \in BOOLEAN, t \in {0, 3, 8}}

Inputs ==
    ScanFiles \cup VersionFiles \cup MagicFiles \cup ShortFiles \cup PageFiles
    \cup TailFiles \cup AlignFiles \cup HandleFiles \cup StringFiles
    \cup OrderFiles

\* files handed to an MCOPageAnalyzer: the families that vary page headers
\* and file lengths
AnalyzerInputs ==
    PageFiles \cup ShortFiles \cup KindFiles \cup StringExtFiles \cup TailFiles

\* page sizes a PageAnalyzer is made with
PA_PAGE_SIZES == {512, 2048}

\* files handed to a PageAnalyzer
PageInputs == StringExtFiles \cup KindFiles \cup ShortFiles

\* files named on the command line: lengths around the limits of parse()
\* and of the dictionary parser
CliFiles ==
    {MkFile(size,
            Magic @@ Names(NAMES_AT, TRUE, TRUE, FALSE)
            @@ VersionAt(VERSION_OFFSET, UsualVersion)
            @@ Put(4 * HEADER_SIZE, <<14>>) @@ OneGrouped) :
        size \in {0, HEADER_SIZE + 255, HEADER_SIZE + 256, DICT_MIN_SIZE - 1,
                  DICT_MIN_SIZE, SizeFor(1)}}

\* command lines: the path matters only where the arguments are accepted
CommandLines ==
    {[run |-> TRUE, args |-> a, path |-> "file"] : a \in ARG_ERRORS \cup {"help"}}
    \cup {[run |-> TRUE, args |-> a, path |-> q] : a \in OPTIONS, q \in PATHS}

-----------------------------------------------------------------------------
(* The programs: GoproMDBParser.parse() with to_dict(),                    *)
(* MCOPageAnalyzer.analyze(), PageAnalyzer and the command main()          *)

\* a parser or an analyzer made for a file, a PageAnalyzer made for the
\* bytes of a file, or the command started on a path
Init ==
    /\ \/ /\ pc = "start"
          /\ file \in Inputs
          /\ pa_page_size = 0
          /\ cli = NoCli
       \/ /\ pc = "a_start"
          /\ file \in AnalyzerInputs
          /\ pa_page_size = 0
          /\ cli = NoCli
       \/ /\ pc = "p_start"
          /\ file \in PageInputs
          /\ pa_page_size \in PA_PAGE_SIZES
          /\ cli = NoCli
       \/ /\ pc = "m_start"
          /\ cli \in CommandLines
          /\ file \in (IF cli.args \in OPTIONS /\ cli.path = "file"
                        THEN CliFiles ELSE {EmptyFile})
          /\ pa_page_size = 0
    /\ calls = 0
    /\ result = "none"
    /\ data = EmptyFile
    /\ file_size = 0
    /\ header_valid = FALSE
    /\ schema_version = "unknown"
    /\ struct_sizes = [mdb_single_ex |-> 0, mdb_grouped_ex |-> 0]
    /\ db_version = [major |-> 0, minor |-> 0]
    /\ page_size = 0
    /\ dictionary_offset = 0
    /\ mco_version = NoVersion
    /\ raw_records = <<>>
    /\ singles_ex = <<>>
    /\ grouped_ex = <<>>
    /\ output = NoOutput
    /\ an_file_size = 0
    /\ an_page_size = 0
    /\ an_n_pages = 0
    /\ an_calls = 0
    /\ an_db_info = NoDbInfo
    /\ an_pages = <<>>
    /\ an_unknowns = <<>>
    /\ pa_pages = <<>>
    /\ pa_calls = 0
    /\ pa_info = None
    /\ exit_code = None

\* parse(): read the file; a file shorter than HEADER_SIZE + 0x100 is refused
Open ==
    /\ pc \in {"start", "done", "failed"}
    /\ pc = "start" \/ ~cli.run
    /\ calls < MaxParses
    /\ calls' = calls + 1
    /\ data' = file
    /\ file_size' = file.size
    /\ IF TooSmall(file)
       THEN pc' = "failed" /\ result' = "false"
       ELSE pc' = "header" /\ result' = "none"
    /\ UNCHANGED <<file, header_valid, schema_version, struct_sizes, db_version,
                   page_size, dictionary_offset, mco_version, raw_records,
                   singles_ex, grouped_ex, output>>
    /\ UNCHANGED <<analyzerVars, pageVars, cliVars>>

ParseHeader ==
    /\ pc = "header"
    /\ header_valid' = parse_header(data)
    /\ pc' = "schema"
    /\ UNCHANGED <<file, calls, result, data, file_size, schema_version,
                   struct_sizes, db_version, page_size, dictionary_offset,
                   mco_version, raw_records, singles_ex, grouped_ex, output>>
    /\ UNCHANGED <<analyzerVars, pageVars, cliVars>>

DetectSchema ==
    /\ pc = "schema"
    /\ schema_version' = detect_schema(data)
    /\ struct_sizes' = detect_struct_sizes(detect_schema(data))
    /\ pc' = "config"
    /\ UNCHANGED <<file, calls, result, data, file_size, header_valid,
                   db_version, page_size, dictionary_offset, mco_version,
                   raw_records, singles_ex, grouped_ex, output>>
    /\ UNCHANGED <<analyzerVars, pageVars, cliVars>>

\* _parse_config_block: database version, page size, engine version
ParseConfigBlock ==
    /\ pc = "config"
    /\ db_version' = DbVersion(data)
    /\ IF Indexed(data, PageSizeIndexes(data))
       THEN /\ page_size' = detect_page_size(data, page_size)
            /\ LET r == parse_mco_version(data, detect_page_size(data, page_size),
                                          dictionary_offset, mco_version)
               IN  /\ dictionary_offset' = r.dictionary_offset
                   /\ mco_version' = r.mco_version
            /\ pc' = "records"
       ELSE /\ pc' = "raised"
            /\ UNCHANGED <<page_size, dictionary_offset, mco_version>>
    /\ UNCHANGED <<file, calls, result, data, file_size, header_valid,
                   schema_version, struct_sizes, raw_records, singles_ex,
                   grouped_ex, output>>
    /\ UNCHANGED <<analyzerVars, pageVars, cliVars>>

\* _find_and_parse_records, then parse() returns True
FindAndParseRecords ==
    /\ pc = "records"
    /\ LET raws == scan_for_records(data, schema_version, raw_records)
       IN  IF Indexed(data, SlotStarts(data))
           THEN /\ raw_records' = raws
                /\ singles_ex' = singles_ex \o DecodeAll(data, raws, 3)
                /\ grouped_ex' = grouped_ex \o DecodeAll(data, raws, 4)
                /\ pc' = "done"
                /\ result' = "true"
           ELSE \* the slots inside the file were scanned before the IndexError
                /\ raw_records' = raws
                /\ pc' = "raised"
                /\ UNCHANGED <<singles_ex, grouped_ex, result>>
    /\ UNCHANGED <<file, calls, data, file_size, header_valid, schema_version,
                   struct_sizes, db_version, page_size, dictionary_offset,
                   mco_version, output>>
    /\ UNCHANGED <<analyzerVars, pageVars, cliVars>>

\* to_dict() after a successful parse()
ToDict ==
    /\ pc = "done"
    /\ ~cli.run
    /\ output' = to_dict
    /\ UNCHANGED <<file, pc, result>>
    /\ UNCHANGED parserVars
    /\ UNCHANGED <<analyzerVars, pageVars, cliVars>>

\* analyze(): read the file; a file shorter than 0x400 is refused
AnalyzeOpen ==
    /\ pc \in {"a_start", "a_done", "a_failed"}
    /\ an_calls < MaxParses
    /\ an_calls' = an_calls + 1
    /\ an_file_size' = file.size
    /\ IF file.size < ANALYZER_MIN_SIZE
       THEN pc' = "a_failed" /\ result' = "false"
       ELSE pc' = "a_pagesize" /\ result' = "none"
    /\ UNCHANGED <<file, output, an_page_size, an_n_pages, an_db_info, an_pages,
                   an_unknowns>>
    /\ UNCHANGED <<parserVars, pageVars, cliVars>>

AnalyzeDetectPageSize ==
    /\ pc = "a_pagesize"
    /\ an_page_size' = an_detect_page_size(file)
    /\ an_n_pages' = an_file_size \div an_detect_page_size(file)
    /\ pc' = "a_info"
    /\ UNCHANGED <<file, result, output, an_file_size, an_calls, an_db_info,
                   an_pages, an_unknowns>>
    /\ UNCHANGED <<parserVars, pageVars, cliVars>>

AnalyzeParseDatabaseInfo ==
    /\ pc = "a_info"
    /\ an_db_info' = parse_database_info(file, an_db_info)
    /\ pc' = "a_scan"
    /\ UNCHANGED <<file, result, output, an_file_size, an_page_size, an_n_pages,
                   an_calls, an_pages, an_unknowns>>
    /\ UNCHANGED <<parserVars, pageVars, cliVars>>

AnalyzeScanPages ==
    /\ pc = "a_scan"
    /\ an_pages' = scan_pages(file, an_page_size, an_pages)
    /\ pc' = "a_unknowns"
    /\ UNCHANGED <<file, result, output, an_file_size, an_page_size, an_n_pages,
                   an_calls, an_db_info, an_unknowns>>
    /\ UNCHANGED <<parserVars, pageVars, cliVars>>

\* _identify_unknowns, then analyze() returns True
AnalyzeIdentifyUnknowns ==
    /\ pc = "a_unknowns"
    /\ an_unknowns' = identify_unknowns(an_pages, an_unknowns)
    /\ pc' = "a_done"
    /\ result' = "true"
    /\ UNCHANGED <<file, output, an_file_size, an_page_size, an_n_pages,
                   an_calls, an_db_info, an_pages>>
    /\ UNCHANGED <<parserVars, pageVars, cliVars>>

\* PageAnalyzer.analyze_all()
AnalyzeAll ==
    /\ pc \in {"p_start", "p_pages"}
    /\ pa_calls < MaxParses
    /\ pa_calls' = pa_calls + 1
    /\ pa_pages' = analyze_all(file, pa_page_size)
    /\ pc' = "p_pages"
    /\ UNCHANGED <<file, result, output, pa_page_size, pa_info>>
    /\ UNCHANGED <<parserVars, analyzerVars, cliVars>>

\* PageAnalyzer.parse_string_ext_page(page) for one of the pages held
ParseStringExtPage ==
    /\ pc = "p_pages"
    /\ \E i \in DOMAIN pa_pages :
          pa_info' = Some([page |-> i,
                           result |-> parse_string_ext_page(file, pa_pages[i])])
    /\ UNCHANGED <<file, pc, result, output, pa_page_size, pa_pages, pa_calls>>
    /\ UNCHANGED <<parserVars, analyzerVars, cliVars>>

\* main() up to the call of parse(): the arguments, then the path
Main ==
    /\ pc = "m_start"
    /\ exit_code' = exit_before_parse(cli)
    /\ pc' = IF exit_before_parse(cli) = None THEN "start" ELSE "m_exit"
    /\ UNCHANGED <<file, result, output, cli>>
    /\ UNCHANGED <<parserVars, analyzerVars, pageVars>>

\* main() after parse() returned False (or raised): exit status 1; pc stays
\* where the parser stopped
MainFailed ==
    /\ cli.run
    /\ exit_code = None
    /\ pc \in {"failed", "raised"}
    /\ exit_code' = Some(1)
    /\ UNCHANGED <<file, pc, result, output, cli>>
    /\ UNCHANGED <<parserVars, analyzerVars, pageVars>>

\* main() after parse() returned True: the output branch of the arguments;
\* --json makes the dictionary, --pages a PageAnalyzer of parser.page_size
MainReport ==
    /\ cli.run
    /\ exit_code = None
    /\ pc = "done"
    /\ exit_code' = Some(exit_after_parse(cli, data))
    /\ output' = IF cli.args = "json" THEN to_dict ELSE output
    /\ IF cli.args = "pages"
       THEN /\ pa_page_size' = (IF page_size # 0 THEN page_size ELSE 512)
            /\ pa_pages' = analyze_all(data, IF page_size # 0 THEN page_size ELSE 512)
            /\ pa_calls' = pa_calls + 1
       ELSE UNCHANGED <<pa_page_size, pa_pages, pa_calls>>
    /\ UNCHANGED <<file, pc, result, cli, pa_info>>
    /\ UNCHANGED <<parserVars, analyzerVars>>

Next ==
    \/ Open
    \/ ParseHeader
    \/ DetectSchema
    \/ ParseConfigBlock
    \/ FindAndParseRecords
    \/ ToDict
    \/ AnalyzeOpen
    \/ AnalyzeDetectPageSize
    \/ AnalyzeParseDatabaseInfo
    \/ AnalyzeScanPages
    \/ AnalyzeIdentifyUnknowns
    \/ AnalyzeAll
    \/ ParseStringExtPage
    \/ Main
    \/ MainFailed
    \/ MainReport

Spec == Init /\ [][Next]_vars

-----------------------------------------------------------------------------
(* Properties *)

GENERATIONS == {"hero11+", "hero9-10", "hero5-8", "legacy"}

\* the first parse() of the parser object has returned True
ParsedOnce == pc = "done" /\ calls = 1

\* slot starts of the raw records held
AcceptedSlots == {raw_records[i].data.lo - 16 : i \in DOMAIN raw_records}

\* expected record size of a table in the generations the spec names
StatedExpected(schema, table_id) ==
    IF schema = "hero11+"
    THEN (IF table_id = 3 THEN 134 ELSE 73)
    ELSE (IF table_id = 3 THEN 78 ELSE 57)

\* the acceptance rule as stated, with tolerance tol, on the bytes of slot s
StatedAccept(f, schema, s, tol) ==
    LET kind_lo == ByteAt(f, s) % 16
        table_id == ByteAt(f, s + 2) + 256 * ByteAt(f, s + 3)
        lo == ByteAt(f, s + 4) + 256 * ByteAt(f, s + 5)
        hi == ByteAt(f, s + 6) + 256 * ByteAt(f, s + 7)
    IN  /\ kind_lo = 0
        /\ table_id \in {3, 4}
        /\ hi = 0 /\ 40 < lo /\ lo < 200
        /\ Abs(lo - StatedExpected(schema, table_id)) <= tol

\* C1 (as amended): in the generations G_NEW (hero11+) and G_OLD (hero5-8)
\* the scanner accepts a slot if and only if kind_lo = 0, table_id is 3 or 4,
\* 40 < rec_size < 200 and |rec_size - expected| < 20 (at most 19); a slot
\* whose rec_size differs from expected by exactly 20 is rejected.
C1_SlotAcceptance ==
    (ParsedOnce /\ schema_version \in {"hero11+", "hero5-8"})
    => /\ AcceptedSlots = {s \in SlotStarts(file) : StatedAccept(file, schema_version, s, 19)}
       /\ Cardinality(AcceptedSlots) = Len(raw_records)

\* C1 as stated: the tolerance includes a difference of exactly 20
C1_AsStated ==
    (ParsedOnce /\ schema_version \in {"hero11+", "hero5-8"})
    => AcceptedSlots = {s \in SlotStarts(file) : StatedAccept(file, schema_version, s, 20)}

\* a slot accepted with a size 19 away from the expected 134
C1_Witness ==
    /\ ParsedOnce
    /\ schema_version = "hero11+"
    /\ \E i \in DOMAIN raw_records :
          /\ raw_records[i].header.table_id = 3
          /\ raw_records[i].header.size = U32(115, 0)

\* C2: an input shorter than 0x500 bytes makes parse() fail before any
\* detection or scanning (no records; header_valid, schema_version, page_size
\* and mco_version keep their initial values); a longer input never fails and
\* parse() returns True.
C2_TooSmallAborts ==
    /\ (calls >= 1 /\ file.size < 1280)
       => /\ pc = "failed" /\ result = "false"
          /\ raw_records = <<>> /\ singles_ex = <<>> /\ grouped_ex = <<>>
          /\ header_valid = FALSE /\ schema_version = "unknown"
          /\ page_size = 0 /\ mco_version = NoVersion
    /\ (calls >= 1 /\ file.size >= 1280)
       => /\ pc \in {"header", "schema", "config", "records", "done"}
          /\ (pc = "done" => result = "true")

\* a refused file of 1279 bytes that holds a valid magic and the names
C2_Witness ==
    /\ pc = "failed" /\ file.size = 1279
    /\ parse_header(file)
    /\ Contains(file, NAME_camera_model)

\* the file with its first 12 bytes replaced by the magic
Repaired(f) ==
    [size |-> f.size,
     mem |-> [o \in ((DOMAIN f.mem) \ {0}) \cup (1..11) |->
                 IF o < 12 THEN EXPECTED_MAGIC[o + 1] ELSE f.mem[o]]]

\* C3: header_valid is true exactly when bytes 0..12 are 00 FF x10 07; a
\* mismatch does not stop decoding: schema, page size, version and records
\* are those of the same file with an intact magic.
C3_MagicRecordedOnly ==
    /\ pc \in {"schema", "config", "records", "done"}
       => header_valid = /\ ByteAt(file, 0) = 0
                         /\ \A o \in 1..10 : ByteAt(file, o) = 255
                         /\ ByteAt(file, 11) = 7
    /\ ParsedOnce
       => LET g == Repaired(file)
              ps == detect_page_size(g, 0)
              raws == scan_for_records(g, detect_schema(g), <<>>)
          IN  /\ result = "true"
              /\ schema_version = detect_schema(g)
              /\ page_size = ps
              /\ mco_version = parse_mco_version(g, ps, 0, NoVersion).mco_version
              /\ raw_records = raws
              /\ singles_ex = DecodeAll(g, raws, 3)
              /\ grouped_ex = DecodeAll(g, raws, 4)

\* a file with a damaged last magic byte, decoded with version and a record
C3_Witness ==
    /\ ParsedOnce
    /\ ByteAt(file, 11) # 7
    /\ ~header_valid
    /\ mco_version.major = 7
    /\ singles_ex # <<>>

\* C4: every input is put in exactly one generation: camera_model and
\* vmoment give hero11+ (G_NEW); camera_model without vmoment gives hero9-10
\* (intermediate); no camera_model but vtag gives hero5-8 (G_OLD); neither
\* gives legacy.  camera_model takes priority over vtag.
C4_GenerationTable ==
    pc \in {"config", "records", "done"}
    => LET cm == Contains(file, NAME_camera_model)
           vm == Contains(file, NAME_vmoment)
           vt == Contains(file, NAME_vtag)
       IN  /\ schema_version \in GENERATIONS
           /\ (cm /\ vm) => schema_version = "hero11+"
           /\ (cm /\ ~vm) => schema_version = "hero9-10"
           /\ (~cm /\ vt) => schema_version = "hero5-8"
           /\ (~cm /\ ~vt) => schema_version = "legacy"

\* camera_model and vtag both present, vmoment absent: intermediate
C4_Witness ==
    /\ pc = "config"
    /\ Contains(file, NAME_camera_model)
    /\ Contains(file, NAME_vtag)
    /\ ~Contains(file, NAME_vmoment)
    /\ schema_version = "hero9-10"

\* C5 as stated: with camera_model and without vmoment (hero9-10) the
\* scanner accepts slots by the G_NEW expected sizes 134 and 73, so that a
\* single_ex slot of rec_size 134 is accepted and decoded.
C5_AsStated ==
    (ParsedOnce /\ schema_version = "hero9-10")
    => \A s \in SlotStarts(file) :
          StatedAccept(file, "hero11+", s, 19)
          => /\ s \in AcceptedSlots
             /\ (ByteAt(file, s + 2) = 3 => singles_ex # <<>>)

\* C6 as stated: in the legacy generation no record is returned, whatever
\* the data region holds.
C6_AsStated ==
    (pc = "done" /\ schema_version = "legacy")
    => raw_records = <<>> /\ singles_ex = <<>> /\ grouped_ex = <<>>

\* a reported field that is absent, or at least holds no value read from
\* the record
NothingRead(field, empty) == field = None \/ field = Some(empty)

\* C7 as stated: in the hero5-8 generation (G_OLD) every reported single_ex
\* record has camera_model, sub_model, dir_no, grp_no, moment_cnt,
\* total_tag_cnt and max_moment_score absent, never values read from the
\* G_NEW offsets of the record.
C7_AsStated ==
    (output.made /\ output.schema_version = "hero5-8")
    => \A i \in DOMAIN output.singles_ex :
          LET rec == output.singles_ex[i]
          IN  /\ NothingRead(rec.camera_model, <<>>)
              /\ NothingRead(rec.sub_model, <<>>)
              /\ NothingRead(rec.dir_no, 0)
              /\ NothingRead(rec.grp_no, 0)
              /\ NothingRead(rec.moment_cnt, 0)
              /\ NothingRead(rec.total_tag_cnt, 0)
              /\ NothingRead(rec.max_moment_score, U32Zero)

\* the three little-endian u16 at offset o, all inside the file
StatedTriple(f, o) ==
    [major |-> ByteAt(f, o) + 256 * ByteAt(f, o + 1),
     minor |-> ByteAt(f, o + 2) + 256 * ByteAt(f, o + 3),
     build |-> ByteAt(f, o + 4) + 256 * ByteAt(f, o + 5)]

StatedPrimaryRange(v) ==
    1 <= v.major /\ v.major <= 15 /\ v.minor <= 99 /\ v.build < 10000

StatedFallbackRange(v) ==
    /\ 5 <= v.major /\ v.major <= 10
    /\ v.minor <= 10
    /\ 1000 <= v.build /\ v.build < 3000

\* offsets of [0x0C00, min(0x1000, file_size - 6)) in 2-byte strides whose
\* triple is in the fallback range
StatedScanHits(f) ==
    {o \in 3072..(Min(4096, f.size - 6) - 1) :
        (o - 3072) % 2 = 0 /\ StatedFallbackRange(StatedTriple(f, o))}

\* the triple at 0x0C10 is examined and in the primary range
StatedPrimaryFound(f) == f.size > 3094 /\ StatedPrimaryRange(StatedTriple(f, 3088))

Least(S) == CHOOSE o \in S : \A q \in S : o <= q

\* C8 (as amended): for a file longer than 0x0C16 bytes the version is the
\* u16 triple at 0x0C10 whenever that triple has 1 <= major <= 15,
\* minor <= 99, build < 10000; otherwise (and for every file of at most
\* 0x0C16 bytes) it is the first triple of [0x0C00, min(0x1000, file_size-6))
\* in 2-byte strides with 5 <= major <= 10, minor <= 10, 1000 <= build < 3000;
\* otherwise it is unknown.  Every reported version is in the first range.
C8_VersionDetection ==
    pc \in {"records", "done"}
    => LET hits == StatedScanHits(file)
       IN  /\ StatedPrimaryFound(file) => mco_version = StatedTriple(file, 3088)
           /\ (~StatedPrimaryFound(file) /\ hits # {})
              => mco_version = StatedTriple(file, Least(hits))
           /\ (~StatedPrimaryFound(file) /\ hits = {})
              => mco_version = NoVersion
           /\ mco_version # NoVersion => StatedPrimaryRange(mco_version)

\* C8 as stated: the triple at 0x0C10 (lying wholly inside the file) is
\* returned whenever it is in the primary range
C8_AsStated ==
    (pc \in {"records", "done"} /\ file.size >= 3094
        /\ StatedPrimaryRange(StatedTriple(file, 3088)))
    => mco_version = StatedTriple(file, 3088)

\* the triple at 0x0C10 is out of range and the scan finds one further on
C8_Witness ==
    /\ pc = "records"
    /\ file.size > 3094
    /\ StatedTriple(file, 3088).major = 16
    /\ mco_version = [major |-> 10, minor |-> 10, build |-> 2999]
    /\ StatedScanHits(file) = {3104}

\* offsets of range(0x800, min(0x3000, file_size), page_size) that hold a
\* byte of low nibble 4
StatedStringPages(f, ps) ==
    {o \in 2048..(Min(12288, f.size) - 1) : (o - 2048) % ps = 0 /\ ByteAt(f, o) % 16 = 4}

\* C9 (as amended): dictionary_offset is the offset at which the accepted
\* version triple was found; when none is found it is max(0x0C00, o - 0x1400)
\* for the first offset o of range(0x800, min(0x3000, file_size), page_size)
\* whose byte has low nibble 4, and 0x0C10 when there is no such offset.
C9_DictionaryOffset ==
    pc \in {"records", "done"}
    => LET hits == StatedScanHits(file)
           pages == StatedStringPages(file, page_size)
       IN  /\ StatedPrimaryFound(file) => dictionary_offset = 3088
           /\ (~StatedPrimaryFound(file) /\ hits # {})
              => dictionary_offset = Least(hits)
           /\ (~StatedPrimaryFound(file) /\ hits = {})
              => dictionary_offset =
                    IF pages = {} THEN 3088 ELSE Max(3072, Least(pages) - 5120)

\* C9 as stated: without a version triple dictionary_offset is 0x0C10
C9_AsStated ==
    (pc \in {"records", "done"} /\ mco_version = NoVersion)
    => dictionary_offset = 3088

\* no version found and a string-table page at 0x2400: 0x2400 - 0x1400
C9_Witness ==
    /\ pc = "records"
    /\ mco_version = NoVersion
    /\ StatedStringPages(file, page_size) = {9216}
    /\ dictionary_offset = 4096

\* valid minus invalid probes of candidate ps over the ps-strided offsets of
\* [ps, min(ps*20, file_size))
StatedScore(f, ps) ==
    LET offs == {ps * k : k \in 1..19} \cap (0..(Min(ps * 20, f.size) - 1))
        valid == {o \in offs : ProbeValid(AnHeader(f, o))}
    IN  Cardinality(valid) - Cardinality(offs \ valid)

\* the first listed of the candidates cands with the highest score, 1024
\* when none of them scores positively
StatedChoice(f, cands) ==
    LET top == {i \in cands :
                   /\ StatedScore(f, COMMON_PAGE_SIZES[i]) > 0
                   /\ \A j \in cands : StatedScore(f, COMMON_PAGE_SIZES[j])
                                          <= StatedScore(f, COMMON_PAGE_SIZES[i])}
    IN  IF top = {} THEN 1024 ELSE COMMON_PAGE_SIZES[Least(top)]

\* C10 (as amended): among the candidate sizes ps = 256, 512, 1024, 2048,
\* 4096 with file_size >= 4 * ps, the analyzer chooses the one with the
\* highest (valid - invalid) score over the ps-strided offsets of
\* [ps, min(ps*20, file_size)), the first listed on a tie, and 1024 when none
\* of them scores positively.
C10_PageSizeByScore ==
    pc = "a_info"
    => an_page_size =
          StatedChoice(file, {i \in DOMAIN COMMON_PAGE_SIZES :
                                 file.size >= 4 * COMMON_PAGE_SIZES[i]})

\* C10 as stated: every candidate size takes part
C10_AsStated ==
    pc = "a_info" => an_page_size = StatedChoice(file, DOMAIN COMMON_PAGE_SIZES)

\* 512 and 1024 tie on a positive score and 512, listed first, is chosen
C10_Witness ==
    /\ pc = "a_info"
    /\ an_page_size = 512
    /\ StatedScore(file, 512) = StatedScore(file, 1024)
    /\ StatedScore(file, 256) < StatedScore(file, 512)
    /\ file.size >= 4 * 4096

\* C11 (as amended): the page size GoproMDBParser detects is one of 256,
\* 512, 1024, 2048; the page size MCOPageAnalyzer detects is one of 256, 512,
\* 1024, 2048, 4096.
C11_PageSizeRange ==
    /\ pc \in {"records", "done"} => page_size \in {256, 512, 1024, 2048}
    /\ pc = "a_info" => an_page_size \in {256, 512, 1024, 2048, 4096}

\* C11 as stated: both page sizes are among 256, 512, 1024, 2048
C11_AsStated ==
    /\ pc \in {"records", "done"} => page_size \in {256, 512, 1024, 2048}
    /\ pc = "a_info" => an_page_size \in {256, 512, 1024, 2048}

\* the analyzer settles on 4096
C11_Witness ==
    /\ pc = "a_info"
    /\ an_page_size = 4096
    /\ StatedScore(file, 4096) > 0

\* C12 as stated: the page size of the decoder (GoproMDBParser.page_size)
\* is the candidate of 256, 512, 1024, 2048 with the highest
\* (valid - invalid) score, and 1024 when no candidate scores positively.
C12_AsStated ==
    pc \in {"records", "done"}
    => \/ page_size = StatedChoice(file, 1..4)
       \/ page_size = StatedChoice(file, {i \in 1..4 : file.size >= 4 * COMMON_PAGE_SIZES[i]})

\* offsets around the end of a buffer of the given length
NearEnd(length) == {o \in (length - 20)..(length + 2) : o >= 0}

\* C13: no step of parse() indexes a byte at or beyond file_size (no
\* IndexError is raised, every record buffer lies inside the file), and a
\* primitive read that would extend past the end of its buffer returns zero
\* (no bytes for a blob).
C13_BoundsSafety ==
    /\ pc # "raised"
    /\ \A i \in DOMAIN raw_records :
          LET w == raw_records[i].data
          IN  /\ DATA_ORIGIN <= w.lo - 16 /\ w.lo <= w.hi /\ w.hi <= file.size
              /\ \A off \in NearEnd(BufLen(w) - OID_SIZE) :
                    /\ off + OID_SIZE >= BufLen(w) => buf_read_u8(file, w, off) = 0
                    /\ off + OID_SIZE + 2 > BufLen(w) => buf_read_u16(file, w, off) = 0
                    /\ off + OID_SIZE + 4 > BufLen(w)
                       => /\ buf_read_u32(file, w, off) = U32Zero
                          /\ buf_read_f32(file, w, off) = U32Zero
                    /\ off + OID_SIZE + 8 > BufLen(w) => buf_read_u64(file, w, off) = U64Zero
                    /\ off + OID_SIZE + 7 > BufLen(w)
                       => buf_read_datetime(file, w, off) = DateTimeZero
                    /\ off + OID_SIZE + 16 > BufLen(w)
                       => buf_read_bytes(file, w, off, 16) = <<>>
    /\ calls >= 1
       => \A o \in NearEnd(file.size) :
             /\ o >= file.size => read_u8(data, o) = 0
             /\ o + 2 > file.size => read_u16(data, o) = 0
             /\ o + 4 > file.size => read_u32(data, o) = U32Zero

\* a record decoded from a buffer that the end of the file cuts short, the
\* last byte of the file being part of it
C13_Witness ==
    /\ pc = "done"
    /\ singles_ex # <<>>
    /\ \E i \in DOMAIN raw_records :
          /\ raw_records[i].data.hi = file.size
          /\ BufLen(raw_records[i].data) < SLOT_SIZE + 64 - 16
    /\ ByteAt(file, file.size - 1) # 0

\* a well-formed hero11+ slot header lies at offset s
LooksLikeSlot(f, s) == StatedAccept(f, "hero11+", s, 19)

\* C14: every accepted record slot starts at an offset s >= 0x2C00 with
\* (s - 0x2C00) % 128 = 0; no slot below 0x2C00 is accepted.
C14_RecordAlignment ==
    \A s \in AcceptedSlots : s >= 11264 /\ (s - 11264) % 128 = 0

\* headers below 0x2C00 and off the grid are passed over, the one on the
\* grid is accepted
C14_Witness ==
    /\ ParsedOnce
    /\ schema_version = "hero11+"
    /\ LooksLikeSlot(file, 11264 - 128)
    /\ LooksLikeSlot(file, 11264 + 64)
    /\ LooksLikeSlot(file, 11264 + 128)
    /\ AcceptedSlots = {11264 + 128}

\* slot of the i-th raw record of the given table
SlotOfNth(table_id, i) ==
    SelectSeq(raw_records, LAMBDA r : r.header.table_id = table_id)[i].data.lo - 16

\* to_dict() has been called after the first parse()
ReportedOnce == pc = "done" /\ calls = 1 /\ output.made

\* the u16 at offset o of the file
DiskU16(o) == ByteAt(file, o) + 256 * ByteAt(file, o + 1)

\* body offsets of the date-times of a single_ex record, with the reported value
SingleDateTimes(i) ==
    {<<52, output.singles_ex[i].ctm>>, <<66, output.singles_ex[i].latm>>,
     <<78, output.singles_ex[i].last_scan_time>>}

\* C15 as stated: a date-time whose year on disk is 0 is reported as absent
\* as a whole.
C15_AsStated ==
    ReportedOnce
    => /\ \A i \in DOMAIN output.singles_ex :
             \A d \in SingleDateTimes(i) :
                DiskU16(SlotOfNth(3, i) + 24 + d[1]) = 0 => d[2] = None
       /\ \A i \in DOMAIN output.grouped_ex :
             DiskU16(SlotOfNth(4, i) + 24 + 20) = 0 => output.grouped_ex[i].grp_ctm = None

\* the seven bytes at offset o read as year:u16, month, day, minute, hour,
\* second agree with the reported date-time
StatedDateTime(o, reported) ==
    /\ reported # None
    /\ reported[1].year = DiskU16(o)
    /\ reported[1].month = ByteAt(file, o + 2)
    /\ reported[1].day = ByteAt(file, o + 3)
    /\ reported[1].minute = ByteAt(file, o + 4)
    /\ reported[1].hour = ByteAt(file, o + 5)
    /\ reported[1].second = ByteAt(file, o + 6)
    /\ DiskU16(o) > 0 => reported[1].actual_year = DiskU16(o) + 1980

\* C16: a date-time is decoded in the order year:u16 (little-endian), month,
\* day, minute, hour, second (byte 4 the minute, byte 5 the hour), and with
\* year > 0 the reported actual_year is year + 1980.
C16_DateTimeOrder ==
    ReportedOnce
    => /\ \A i \in DOMAIN output.singles_ex :
             \A d \in SingleDateTimes(i) :
                StatedDateTime(SlotOfNth(3, i) + 24 + d[1], d[2])
       /\ \A i \in DOMAIN output.grouped_ex :
             StatedDateTime(SlotOfNth(4, i) + 24 + 20, output.grouped_ex[i].grp_ctm)

\* bytes 2A 00 05 11 1E 0E 3B: 2022-05-17 14:30:59
C16_Witness ==
    /\ ReportedOnce
    /\ output.singles_ex # <<>>
    /\ LET d == output.singles_ex[1].ctm[1]
       IN  /\ d.year = 42 /\ d.actual_year = 2022
           /\ d.month = 5 /\ d.day = 17
           /\ d.minute = 30 /\ d.hour = 14 /\ d.second = 59
           /\ d.formatted = Some(<<50, 48, 50, 50, 45, 48, 53, 45, 49, 55, 32,
                                   49, 52, 58, 51, 48, 58, 53, 57>>)

\* the u32 at offset o of the file, for values below 2^31
DiskU32(o) == DiskU16(o) + 65536 * DiskU16(o + 2)

\* C17 as stated: a grouped_ex record with frame_rate_duration = 0 has its
\* fps reported as absent.
C17_AsStated ==
    ReportedOnce
    => \A i \in DOMAIN output.grouped_ex :
          DiskU32(SlotOfNth(4, i) + 24 + 12) = 0
          => output.grouped_ex[i].frame_rate_fps = None

\* C18 (as amended): for a grouped_ex record with frame_rate_duration > 0
\* the reported fps is timescale / duration rounded to two decimals:
\* |fps * duration - timescale| <= 0.005 * duration.  (fps in hundredths h:
\* 2 * |h * duration - 100 * timescale| <= duration.)
C18_FrameRateRounded ==
    ReportedOnce
    => \A i \in DOMAIN output.grouped_ex :
          LET t == DiskU32(SlotOfNth(4, i) + 24 + 8)
              d == DiskU32(SlotOfNth(4, i) + 24 + 12)
              fps == output.grouped_ex[i].frame_rate_fps
          IN  d > 0 => /\ fps # None
                       /\ 2 * Abs(fps[1] * d - 100 * t) <= d

\* C18 as stated: fps * duration equals timescale to within 1e-6 (an fps of
\* h hundredths: h * duration = 100 * timescale)
C18_AsStated ==
    ReportedOnce
    => \A i \in DOMAIN output.grouped_ex :
          LET t == DiskU32(SlotOfNth(4, i) + 24 + 8)
              d == DiskU32(SlotOfNth(4, i) + 24 + 12)
              fps == output.grouped_ex[i].frame_rate_fps
          IN  d > 0 => /\ fps # None
                       /\ fps[1] * d = 100 * t

\* timescale 30000 and duration 1001 are reported as 29.97
C18_Witness ==
    /\ ReportedOnce
    /\ \E i \in DOMAIN output.grouped_ex :
          /\ DiskU32(SlotOfNth(4, i) + 24 + 8) = 30000
          /\ DiskU32(SlotOfNth(4, i) + 24 + 12) = 1001
          /\ output.grouped_ex[i].frame_rate_fps = Some(2997)

\* body offsets of the indicator bytes of a grouped_ex record, each with the
\* reported value of the field it governs (the two rates are always reported
\* as numbers)
GroupedOptionals(i) ==
    {<<34, Some(output.grouped_ex[i].frame_rate_duration)>>,
     <<35, Some(output.grouped_ex[i].frame_rate_timescale)>>,
     <<54, output.grouped_ex[i].f_is_progressive>>,
     <<55, output.grouped_ex[i].grp_no>>,
     <<56, output.grouped_ex[i].f_is_subsample>>}

\* C21 as stated: a field of a grouped_ex record whose indicator byte is 0
\* is reported as absent, not as the value read from the record.
C21_AsStated ==
    ReportedOnce
    => \A i \in DOMAIN output.grouped_ex :
          \A opt \in GroupedOptionals(i) :
             ByteAt(file, SlotOfNth(4, i) + 24 + opt[1]) = 0
             => opt[2] = None

\* three decimal digits of n < 1000 as character codes
ThreeDigits(n) == <<48 + (n \div 100), 48 + ((n \div 10) % 10), 48 + (n % 10)>>

\* C19: decoding a file handle returns the directory number held in byte 4
\* (rendered as three digits followed by GOPRO), the file number held in
\* bytes 0-1 and the type flag held in byte 7; the bytes 2, 3, 5 and 6 have
\* no influence.
C19_HandleRoundTrip ==
    ReportedOnce
    => \A i \in DOMAIN output.singles_ex :
          LET o == SlotOfNth(3, i) + 24 + 16
              dir_no == ByteAt(file, o + 4)
              file_no == DiskU16(o)
              info == decode_file_handle(singles_ex[i].file_handle)
          IN  /\ info.directory = ThreeDigits(dir_no) \o <<71, 79, 80, 82, 79>>
              /\ info.file_number = file_no
              /\ info.type_flag = ByteAt(file, o + 7)
              /\ (\E k \in 0..7 : ByteAt(file, o + k) # 0)
                 => output.singles_ex[i].file_info = Some(info)

\* directory 100, file 9999, type 255, with the other bytes set
C19_Witness ==
    /\ ReportedOnce
    /\ output.singles_ex # <<>>
    /\ ByteAt(file, SlotOfNth(3, 1) + 24 + 16 + 2) = 171
    /\ output.singles_ex[1].file_info # None
    /\ LET info == output.singles_ex[1].file_info[1]
       IN  /\ info.directory = <<49, 48, 48, 71, 79, 80, 82, 79>>
           /\ info.file_number = 9999
           /\ info.type_flag = 255

\* the record's handle on disk is 0x0100000064000001
ScenarioHandle(i) ==
    \A k \in 1..8 : ByteAt(file, SlotOfNth(3, i) + 24 + 16 + k - 1) = HANDLE_BYTES[k]

\* C20 (as amended): the handle 0x0100000064000001 decodes to directory
\* number 0 (its byte 4) and file number 1: estimated_path is
\* "000GOPRO/GX00001.MP4".
C20_ScenarioHandle ==
    ReportedOnce
    => \A i \in DOMAIN output.singles_ex :
          ScenarioHandle(i)
          => /\ output.singles_ex[i].file_info # None
             /\ output.singles_ex[i].file_info[1].file_number = 1
             /\ output.singles_ex[i].file_info[1].directory = <<48, 48, 48, 71, 79, 80, 82, 79>>
             /\ output.singles_ex[i].file_info[1].estimated_path = <<48, 48, 48, 71, 79, 80, 82, 79, 47, 71, 88, 48, 48, 48, 48, 49, 46, 77, 80, 52>>

\* C20 as stated: the handle decodes to directory 100 and file 1:
\* estimated_path is "100GOPRO/GX00001.MP4".
C20_AsStated ==
    ReportedOnce
    => \A i \in DOMAIN output.singles_ex :
          ScenarioHandle(i)
          => /\ output.singles_ex[i].file_info # None
             /\ output.singles_ex[i].file_info[1].file_number = 1
             /\ output.singles_ex[i].file_info[1].estimated_path = <<49, 48, 48, 71, 79, 80, 82, 79, 47, 71, 88, 48, 48, 48, 48, 49, 46, 77, 80, 52>>

\* the scenario record is reported with type flag 1
C20_Witness ==
    /\ ReportedOnce
    /\ output.singles_ex # <<>>
    /\ ScenarioHandle(1)
    /\ output.singles_ex[1].file_info # None
    /\ output.singles_ex[1].file_info[1].type_flag = 1
    /\ output.singles_ex[1].camera_model = Some(TEXT_HERO11 \o <<32>> \o TEXT_Black)

\* the bytes of the file in the window of a single_ex field: the field's
\* max_len bytes, cut at the end of the record buffer and of the file
FieldWindow(slot, u_offset, max_len) ==
    LET first == slot + 16 + 8 + u_offset
        last == Min(Min(first + max_len, slot + 192), file.size) - 1
    IN  [i \in 1..(last - first + 1) |-> ByteAt(file, first + i - 1)]

\* the maximal runs of bytes in 0x20..0x7E of raw, as (first, last) indexes
StatedRuns(raw) ==
    {r \in (1..Len(raw)) \X (1..Len(raw)) :
        /\ r[1] <= r[2]
        /\ \A k \in r[1]..r[2] : raw[k] >= 32 /\ raw[k] <= 126
        /\ r[1] = 1 \/ raw[r[1] - 1] < 32 \/ raw[r[1] - 1] > 126
        /\ r[2] = Len(raw) \/ raw[r[2] + 1] < 32 \/ raw[r[2] + 1] > 126}

\* a run without its surrounding spaces
StatedStripped(raw, r) ==
    LET inked == {k \in r[1]..r[2] : raw[k] # 32}
    IN  IF inked = {} THEN <<>>
        ELSE SubSeq(raw, CHOOSE k \in inked : \A j \in inked : k <= j,
                         CHOOSE k \in inked : \A j \in inked : k >= j)

\* the stripped runs of at least m bytes, from the run starting at index
\* `from` on, joined by single spaces
RECURSIVE StatedJoined(_, _, _)
StatedJoined(raw, m, from) ==
    LET kept == {r \in StatedRuns(raw) :
                    r[1] >= from /\ Len(StatedStripped(raw, r)) >= m}
        first == CHOOSE r \in kept : \A q \in kept : r[1] <= q[1]
    IN  IF kept = {} THEN <<>>
        ELSE IF kept = {first} THEN StatedStripped(raw, first)
        ELSE StatedStripped(raw, first) \o <<32>>
             \o StatedJoined(raw, m, first[2] + 1)

\* C22: camera_model and sub_model of every single_ex record are the maximal
\* runs of bytes 0x20..0x7E of the field window, each stripped of surrounding
\* spaces, those shorter than 2 dropped, joined by single spaces in order;
\* the result neither starts nor ends with a space.
C22_StringCleaning ==
    pc = "done" /\ calls = 1
    => \A i \in DOMAIN singles_ex :
          LET cm == singles_ex[i].camera_model
              sm == singles_ex[i].sub_model
          IN  /\ cm = StatedJoined(FieldWindow(SlotOfNth(3, i), 97, 30), 2, 1)
              /\ sm = StatedJoined(FieldWindow(SlotOfNth(3, i), 128, 16), 2, 1)
              /\ \A t \in {cm, sm} : t # <<>> => t[1] # 32 /\ t[Len(t)] # 32

\* "HERO11", 0x00, "X", 0x00, "Black" is read as "HERO11 Black", and a field
\* of spaces around the two words as the same text
C22_Witness ==
    /\ pc = "done" /\ calls = 1
    /\ Len(singles_ex) = 1
    /\ FieldWindow(SlotOfNth(3, 1), 97, 30)
         \in {Padded(TEXT_HERO11 \o <<0, 88, 0>> \o TEXT_Black, 30)}
    /\ singles_ex[1].camera_model = TEXT_HERO11 \o <<32>> \o TEXT_Black
    /\ singles_ex[1].sub_model = TEXT_Black \o <<32, 77, 105, 110, 105>>

\* the values the three record lists hold after one parse() of the file
FirstParse ==
    LET raws == scan_for_records(file, detect_schema(file), <<>>)
    IN  [raw_records |-> raws,
         singles_ex |-> DecodeAll(file, raws, 3),
         grouped_ex |-> DecodeAll(file, raws, 4)]

\* C25 as stated: after a second parse() of the same parser over the
\* unchanged file, raw_records, singles_ex and grouped_ex equal their values
\* after the first call.
C25_AsStated ==
    (pc = "done" /\ calls >= 1)
    => /\ raw_records = FirstParse.raw_records
       /\ singles_ex = FirstParse.singles_ex
       /\ grouped_ex = FirstParse.grouped_ex

\* slot starts 0x2C00 + 128 * k up to and including file_size - 128
StatedSlots(f) ==
    {s \in 11264..(f.size - 128) : (s - 11264) % 128 = 0}

\* C26 as stated: every slot start s = 0x2C00 + 128 * k with
\* s <= file_size - 128 is examined, so a slot that satisfies the acceptance
\* rule is accepted, the slot of the last 128 bytes of the file included.
C26_AsStated ==
    (ParsedOnce /\ schema_version \in {"hero11+", "hero5-8"})
    => \A s \in StatedSlots(file) :
          StatedAccept(file, schema_version, s, 19) => s \in AcceptedSlots

\* the u64 at offset o of the file, as four 16-bit words
DiskU64(o) == [k \in 1..4 |-> DiskU16(o + 2 * (k - 1))]

\* the raw records of one table, in the order held
RawOf(table_id) == SelectSeq(raw_records, LAMBDA r : r.header.table_id = table_id)

\* C29: after parse() every accepted slot has yielded exactly one decoded
\* record, in scan order: singles_ex has one record per accepted slot of
\* table 3 and grouped_ex one per accepted slot of table 4, in increasing
\* slot offset, and no accepted slot is dropped by the minimum lengths of
\* the decoders (100 and 50 bytes), also where the end of the file cuts the
\* body short.  (First parse() of a parser object.)
C29_OneRecordPerSlot ==
    ParsedOnce
    => /\ Cardinality(AcceptedSlots) = Len(raw_records)
       /\ \A i, j \in DOMAIN raw_records :
             i < j => raw_records[i].data.lo < raw_records[j].data.lo
       /\ \A i \in DOMAIN raw_records :
             /\ raw_records[i].header.table_id \in {3, 4}
             /\ BufLen(raw_records[i].data) >= 100
       /\ Len(singles_ex) = Len(RawOf(3))
       /\ Len(grouped_ex) = Len(RawOf(4))
       /\ \A i \in DOMAIN singles_ex :
             singles_ex[i].file_handle = DiskU64(SlotOfNth(3, i) + 24 + 16)
       /\ \A i \in DOMAIN grouped_ex :
             grouped_ex[i].file_handle = DiskU64(SlotOfNth(4, i) + 24)

\* several records of both tables, the last of table 3 with a body of 113
\* bytes that ends with the file: every one is decoded, in slot order
C29_Witness ==
    /\ ParsedOnce
    /\ Len(raw_records) >= 3
    /\ raw_records[Len(raw_records)].data.hi = file.size
    /\ BufLen(raw_records[Len(raw_records)].data) = 113
    /\ grouped_ex # <<>>
    /\ Len(singles_ex) >= 2
    /\ singles_ex[Len(singles_ex)].file_handle[1] = Len(raw_records)
    /\ singles_ex[Len(singles_ex) - 1].file_handle[1] < Len(raw_records)

-----------------------------------------------------------------------------
(* C23: exit status of the command                                         *)

\* the command line is well formed: every refusal left is about the path
\* or the file
ArgumentsAccepted == cli.run /\ cli.args \in OPTIONS \ {"hex_bad"}

\* C23 as stated: the command exits 0 on success, 1 when the path cannot be
\* read (a path that does not exist included) or the decoder refuses the
\* file as too small, and 2 only for argument errors.
C23_AsStated ==
    (cli.run /\ exit_code # None)
    => /\ (ArgumentsAccepted /\ cli.path # "file") => exit_code = Some(1)
       /\ (ArgumentsAccepted /\ cli.path = "file" /\ file.size < 1280)
          => exit_code = Some(1)
       /\ (exit_code = Some(2)) => ~ArgumentsAccepted
       /\ (exit_code = Some(0))
          => \/ cli.args = "help"
             \/ ArgumentsAccepted /\ cli.path = "file" /\ result = "true"

-----------------------------------------------------------------------------
(* C24: page coverage                                                      *)

RECURSIVE SumOf(_)
SumOf(sizes) == IF sizes = <<>> THEN 0 ELSE Head(sizes) + SumOf(Tail(sizes))

\* the first walk of an MCOPageAnalyzer has been made
WalkedOnce == an_calls = 1 /\ pc \in {"a_unknowns", "a_done"}

\* a PageAnalyzer, made by hand or by --pages, has walked the bytes
PagesWalked == pa_calls >= 1

\* C24: the pages of a walk start at 0, page_size, 2 * page_size, ... in
\* this order; when the file length is a multiple of page_size the sizes of
\* the pages add up to the file length and the number of pages is
\* file_size / page_size, which for the MCOPageAnalyzer is its n_pages.
\* (MCOPageAnalyzer: the first analyze(); PageAnalyzer: every analyze_all().)
C24_PageCoverage ==
    /\ WalkedOnce
       => /\ \A i \in DOMAIN an_pages :
                an_pages[i].offset = (i - 1) * an_page_size
          /\ (an_file_size % an_page_size = 0)
             => /\ SumOf([i \in DOMAIN an_pages |-> an_pages[i].size])
                   = an_file_size
                /\ Len(an_pages) = an_file_size \div an_page_size
                /\ Len(an_pages) = an_n_pages
    /\ PagesWalked
       => /\ \A i \in DOMAIN pa_pages :
                pa_pages[i].offset = (i - 1) * pa_page_size
          /\ (file.size % pa_page_size = 0)
             => /\ SumOf([i \in DOMAIN pa_pages |-> BufLen(pa_pages[i].data)])
                   = file.size
                /\ Len(pa_pages) = file.size \div pa_page_size

\* a file of several whole pages walked by an MCOPageAnalyzer
C24_Witness ==
    /\ WalkedOnce
    /\ pc = "a_done"
    /\ an_file_size % an_page_size = 0
    /\ Len(an_pages) >= 4
    /\ an_pages[4].offset = 3 * an_page_size

-----------------------------------------------------------------------------
(* C27: the unknowns of the diagnostics view                               *)

\* the kinds the page taxonomy names
StatedKinds == (0..15) \ {9, 13}

\* positions in the unknowns list of the entries of a type for a page
EntriesAt(type, offset) ==
    {j \in DOMAIN an_unknowns :
        an_unknowns[j].type = type /\ an_unknowns[j].offset = offset}

\* C27 as stated: after analyze() a page is listed in unknowns if and only
\* if its kind (low nibble) is none of the kinds of the taxonomy or its
\* flags have a bit of 0xC0 set, with one entry per condition: a page of
\* kind 9 or 13 is listed, a STRING_EXT page (14) with ordinary flags is not.
C27_AsStated ==
    WalkedOnce /\ pc = "a_done"
    => \A i \in DOMAIN an_pages :
          LET header == an_pages[i].header
              offset == an_pages[i].offset
          IN  /\ Cardinality(EntriesAt("unknown_page_kind", offset))
                 = (IF page_type(header) \notin StatedKinds THEN 1 ELSE 0)
              /\ Cardinality(EntriesAt("unusual_flags", offset))
                 = (IF header.kind >= 64 THEN 1 ELSE 0)

-----------------------------------------------------------------------------
(* C28: the strings of a STRING_EXT page                                   *)

\* C28 as stated: every string parse_string_ext_page extracts from a
\* STRING_EXT page consists of bytes in 0x20..0x7E only, is followed by a
\* null byte inside the page, and has length >= 2; for a page of another
\* kind the result is an error value.
C28_AsStated ==
    pa_info # None
    => LET page == pa_pages[pa_info[1].page]
           r == pa_info[1].result
       IN  IF page.kind # 14
           THEN DOMAIN r = {"error"}
           ELSE \A k \in DOMAIN r.strings :
                   LET str == r.strings[k]
                       end == page.data.lo + str.offset + Len(str.value)
                   IN  /\ Len(str.value) >= 2
                       /\ \A c \in DOMAIN str.value : Printable(str.value[c])
                       /\ end < page.data.hi
                       /\ ByteAt(file, end) = 0

-----------------------------------------------------------------------------
(* C30: walking the pages again                                            *)

\* C30 as stated: a second run of the page walk over the same bytes leaves
\* the page list, the numbers of pages of each kind and the unknowns list
\* equal to those after the first run, no page or entry being there twice:
\* after every analyze_all() of a PageAnalyzer and after every analyze() of
\* an MCOPageAnalyzer they are those of one walk of the file.
C30_AsStated ==
    /\ PagesWalked => pa_pages = analyze_all(file, pa_page_size)
    /\ (pc = "a_done" /\ an_calls >= 1)
       => /\ an_pages = scan_pages(file, an_page_size, <<>>)
          /\ get_page_summary(an_pages)
             = get_page_summary(scan_pages(file, an_page_size, <<>>))
          /\ an_unknowns
             = identify_unknowns(scan_pages(file, an_page_size, <<>>), <<>>)
          /\ \A i, j \in DOMAIN an_pages :
                i # j => an_pages[i].offset # an_pages[j].offset

====
